---- MODULE Spec2Model ----
(***************************************************************************)
(* Verification model of kb_generator: the class dependency graph          *)
(* (analyzers/dependency_graph.py), the change impact analyzer             *)
(* (analyzers/impact_analyzer.py), the state tracker (state/tracker.py,    *)
(* state/models.py) and the scan / update pipeline (pipeline.py).          *)
(*                                                                         *)
(* Text is modelled as a sequence of tokens: "IRepository<Order>" is       *)
(* <<"I", "Repository", "<", "Order", ">">>.  Python's substring, prefix   *)
(* and suffix tests become tests on contiguous token runs, plus a table    *)
(* (Subs) of the keywords that lie inside a single token.                  *)
(***************************************************************************)
EXTENDS Integers, Sequences, FiniteSets, TLC

VARIABLES
    \* ---- dependency graph (DependencyGraph.__init__) ----
    all_classes,        \* input: list[ClassInfo] handed to build_dependency_graph
    nodes,              \* graph.nodes: insertion-ordered dict, as a sequence of GraphNode
    edges,              \* graph.edges: list[GraphEdge]
    interface_map,      \* graph.interface_map: full name -> list of implementations
    incoming,           \* graph._incoming: target -> list of edges
    outgoing,           \* graph._outgoing: source -> list of edges
    short_name_index,   \* graph._short_name_index: short name -> set of full names
    flows,              \* list[RequestFlow] returned by analyze_flows
    pc,                 \* position of build_dependency_graph / its caller
    idx,                \* loop index of the running build step
    result,             \* value returned by the last traversal / analysis call
    \* ---- state tracker and pipeline ----
    disk,               \* source files on disk: path -> content
    state_file,         \* content of .kb-state.json
    run                 \* the pipeline run in progress (command, position, locals)

gvars == <<all_classes, nodes, edges, interface_map, incoming, outgoing,
           short_name_index, flows, pc, idx, result>>
tvars == <<disk, state_file, run>>
vars  == <<gvars, tvars>>

-----------------------------------------------------------------------------
(* Bounds of the model *)

MaxClasses == 3      \* length of the class list handed to the graph builder
MaxDepthArg == 2     \* largest max_depth argument tried in traversal / analysis
MaxChanged == 2      \* number of changed files handed to analyze_impact
MaxRuns == 2         \* number of scan / update / refresh runs started
SaveChunks == 2      \* number of write calls json.dump makes for one state file
MaxFlowClasses == 4  \* length of the class list whose flows are analysed
MaxFlows == 6        \* largest number of affected flows in a report whose risk is read
MaxOther == 2        \* largest length of each other list of such a report

-----------------------------------------------------------------------------
(* Text helpers *)

Range(s) == { s[i] : i \in DOMAIN s }

\* str.lower() on one token
Lower(t) ==
    CASE t = "Order" -> "order"     [] t = "Create" -> "create"
      [] t = "Command" -> "command" [] t = "Query" -> "query"
      [] t = "Handler" -> "handler" [] t = "Repository" -> "repository"
      [] t = "Endpoint" -> "endpoint" [] t = "Request" -> "request"
      [] t = "Tests" -> "tests"     [] t = "Shipping" -> "shipping"
      [] t = "Billing" -> "billing" [] t = "Shop" -> "shop"
      [] t = "Core" -> "core"       [] t = "Web" -> "web"
      [] t = "Infrastructure" -> "infrastructure"
      [] t = "UseCases" -> "usecases" [] t = "App" -> "app"
      [] t = "I" -> "i"             [] t = "AggregateRoot" -> "aggregateroot"
      [] t = "Get" -> "get"         [] t = "Event" -> "event"
      [] t = "Controller" -> "controller" [] t = "Base" -> "base"
      [] t = "Checkout" -> "checkout"
      [] t = "Notification" -> "notification" [] t = "Created" -> "created"
      [] t = "Spec" -> "spec"       [] t = "Dto" -> "dto"
      [] t = "ValueObject" -> "valueobject"
      [] t = "Specification" -> "specification"
      [] t = "EntityTypeConfiguration" -> "entitytypeconfiguration"
      [] OTHER -> t

LowerSeq(s) == [i \in DOMAIN s |-> Lower(s[i])]

\* keywords that are proper substrings of a single token
Subs(t) ==
    CASE t = "Tests" -> {"Test"}
      [] t = "tests" -> {"test"}
      [] t = "infrastructure" -> {"infra"}
      [] t = "usecases" -> {"usecase"}
      [] OTHER -> {}

IsPrefix(p, s) == Len(p) <= Len(s) /\ SubSeq(s, 1, Len(p)) = p
IsSuffix(p, s) == Len(p) <= Len(s) /\ SubSeq(s, Len(s) - Len(p) + 1, Len(s)) = p

\* Python "p in s" for strings
Contains(s, p) ==
    \/ \E i \in 0..(Len(s) - Len(p)) : SubSeq(s, i + 1, i + Len(p)) = p
    \/ Len(p) = 1 /\ \E i \in DOMAIN s : p[1] \in Subs(s[i])

\* any(k in s for k in ks)
ContainsAny(s, ks) == \E k \in ks : Contains(s, <<k>>)

\* list membership / any(... for x in list)
InList(x, l) == \E i \in DOMAIN l : l[i] = x
AnyHas(l, p) == \E i \in DOMAIN l : Contains(l[i], p)

\* str.replace(old, "") for a one-token old
RemoveToken(s, t) == SelectSeq(s, LAMBDA x : x # t)

\* index of the first "<" token, 0 when there is none (str.find)
RECURSIVE FindLt(_, _)
FindLt(s, i) ==
    IF i > Len(s) THEN 0
    ELSE IF s[i] = "<" THEN i ELSE FindLt(s, i + 1)

_strip_generic(name) ==
    LET i == FindLt(name, 1) IN IF i # 0 THEN SubSeq(name, 1, i - 1) ELSE name

GenericStop == {"<", ">", ","}

\* longest run of tokens outside GenericStop starting at position i
RECURSIVE ArgRun(_, _)
ArgRun(s, i) ==
    IF i > Len(s) \/ s[i] \in GenericStop THEN <<>>
    ELSE <<s[i]>> \o ArgRun(s, i + 1)

\* re.search(r"<\s*([^<>,\s]+)", name): the first "<" followed by a name;
\* <<>> stands for None
RECURSIVE ArgFrom(_, _)
ArgFrom(s, i) ==
    IF i > Len(s) THEN <<>>
    ELSE IF s[i] = "<" /\ ArgRun(s, i + 1) # <<>> THEN ArgRun(s, i + 1)
    ELSE ArgFrom(s, i + 1)

_extract_generic_arg(name) == ArgFrom(name, 1)

\* ClassInfo.full_name
FullName(cls) ==
    IF cls.namespace # <<>> THEN cls.namespace \o <<".">> \o cls.name ELSE cls.name

\* every parameter of every constructor, in declaration order
RECURSIVE Flatten(_)
Flatten(ss) == IF ss = <<>> THEN <<>> ELSE Head(ss) \o Flatten(Tail(ss))

CtorParams(cls) == Flatten(cls.constructors)

-----------------------------------------------------------------------------
(* PatternDetector *)

detect_aggregate_root(c) ==
    \/ InList(<<"I", "AggregateRoot">>, c.interfaces)
    \/ AnyHas(c.attributes, <<"AggregateRoot">>)

detect_value_object(c) ==
    \/ \E i \in DOMAIN c.attributes :
          Contains(c.attributes[i], <<"ValueObject">>) \/ Contains(c.attributes[i], <<"Vogen">>)
    \/ AnyHas(c.base_classes, <<"ValueObject">>)
    \/ c.class_kind = "record" /\ c.methods = <<>>

detect_domain_event(c) ==
    \/ IsSuffix(<<"Event">>, c.name)
    \/ \E i \in DOMAIN c.interfaces : Contains(LowerSeq(c.interfaces[i]), <<"event">>)
    \/ \E i \in DOMAIN c.base_classes : Contains(LowerSeq(c.base_classes[i]), <<"event">>)

detect_event_handler(c) ==
    \E i \in DOMAIN c.interfaces :
        \/ Contains(c.interfaces[i], <<"Notification", "Handler">>)
        \/ Contains(c.interfaces[i], <<"Event", "Handler">>)

detect_specification(c) ==
    \/ IsSuffix(<<"Spec">>, c.name) \/ IsSuffix(<<"Specification">>, c.name)
    \/ AnyHas(c.base_classes, <<"Specification">>)

detect_command(c) ==
    \/ IsSuffix(<<"Command">>, c.name)
    \/ \E i \in DOMAIN c.interfaces :
          \/ Contains(c.interfaces[i], <<"I", "Command">>)
          \/ Contains(c.interfaces[i], <<"I", "Request">>) /\ Contains(c.name, <<"Command">>)

detect_query(c) ==
    \/ IsSuffix(<<"Query">>, c.name)
    \/ \E i \in DOMAIN c.interfaces :
          \/ Contains(c.interfaces[i], <<"I", "Query">>)
          \/ Contains(c.interfaces[i], <<"I", "Request">>) /\ Contains(c.name, <<"Query">>)

detect_handler(c) ==
    \/ IsSuffix(<<"Handler">>, c.name)
    \/ \E i \in DOMAIN c.interfaces :
          /\ Contains(c.interfaces[i], <<"Handler">>)
          /\ \/ Contains(c.interfaces[i], <<"Command">>)
             \/ Contains(c.interfaces[i], <<"Query">>)
             \/ Contains(c.interfaces[i], <<"Request">>)

detect_repository(c) ==
    \/ AnyHas(c.interfaces, <<"I", "Repository">>)
    \/ AnyHas(c.base_classes, <<"Repository">>)
    \/ Contains(c.name, <<"Repository">>)

detect_endpoint(c) ==
    \/ AnyHas(c.base_classes, <<"Endpoint">>)
    \/ InList(<<"[", "ApiController", "]">>, c.attributes)
    \/ InList(<<"ApiController">>, c.attributes)
    \/ AnyHas(c.base_classes, <<"Controller">>)

detect_ef_configuration(c) == AnyHas(c.interfaces, <<"I", "EntityTypeConfiguration">>)

detect_dto(c) ==
    \/ c.class_kind = "record" /\ c.methods = <<>> /\ c.properties # <<>>
    \/ \E suf \in {"DTO", "Dto", "Request", "Response", "Model"} : IsSuffix(<<suf>>, c.name)

-----------------------------------------------------------------------------
(* Layer and role classification *)

\* the layer with the domain-event test left out of the fallback
ClassifyLayerNoEventTest(project_name, c) ==
    LET pn == LowerSeq(project_name) IN
    IF ContainsAny(pn, {"test", "spec"}) THEN "Test"
    ELSE IF ContainsAny(pn, {"web", "api", "host", "server"}) THEN "Web"
    ELSE IF ContainsAny(pn, {"infrastructure", "infra", "data", "persistence"})
         THEN "Infrastructure"
    ELSE IF ContainsAny(pn, {"usecase", "application", "usecases"}) THEN "Application"
    ELSE IF ContainsAny(pn, {"core", "domain", "shared", "kernel"}) THEN "Core"
    ELSE IF detect_endpoint(c) THEN "Web"
    ELSE IF detect_handler(c) \/ detect_command(c) \/ detect_query(c) THEN "Application"
    ELSE IF detect_aggregate_root(c) THEN "Core"
    ELSE IF detect_repository(c) \/ detect_ef_configuration(c) THEN "Infrastructure"
    ELSE "Other"

_classify_layer(project_name, c) ==
    LET pn == LowerSeq(project_name) IN
    IF ContainsAny(pn, {"test", "spec"}) THEN "Test"
    ELSE IF ContainsAny(pn, {"web", "api", "host", "server"}) THEN "Web"
    ELSE IF ContainsAny(pn, {"infrastructure", "infra", "data", "persistence"})
         THEN "Infrastructure"
    ELSE IF ContainsAny(pn, {"usecase", "application", "usecases"}) THEN "Application"
    ELSE IF ContainsAny(pn, {"core", "domain", "shared", "kernel"}) THEN "Core"
    ELSE IF detect_endpoint(c) THEN "Web"
    ELSE IF detect_handler(c) \/ detect_command(c) \/ detect_query(c) THEN "Application"
    ELSE IF detect_aggregate_root(c) \/ detect_domain_event(c) THEN "Core"
    ELSE IF detect_repository(c) \/ detect_ef_configuration(c) THEN "Infrastructure"
    ELSE "Other"

\* the chain of tests with the event-handler test moved before the handler test
ClassifyRoleEventHandlerFirst(c) ==
    IF detect_endpoint(c) THEN "endpoint"
    ELSE IF detect_command(c) THEN "command"
    ELSE IF detect_query(c) THEN "query"
    ELSE IF detect_event_handler(c) THEN "event_handler"
    ELSE IF detect_handler(c) THEN "handler"
    ELSE IF detect_repository(c) THEN "repository"
    ELSE IF detect_aggregate_root(c) THEN "entity"
    ELSE IF detect_ef_configuration(c) THEN "config"
    ELSE IF detect_dto(c) THEN "dto"
    ELSE IF detect_specification(c) THEN "specification"
    ELSE IF detect_value_object(c) THEN "value_object"
    ELSE IF detect_domain_event(c) THEN "domain_event"
    ELSE IF c.class_kind = "interface" THEN "interface"
    ELSE "other"

_classify_role(c) ==
    IF detect_endpoint(c) THEN "endpoint"
    ELSE IF detect_command(c) THEN "command"
    ELSE IF detect_query(c) THEN "query"
    ELSE IF detect_handler(c) THEN "handler"
    ELSE IF detect_repository(c) THEN "repository"
    ELSE IF detect_aggregate_root(c) THEN "entity"
    ELSE IF detect_ef_configuration(c) THEN "config"
    ELSE IF detect_dto(c) THEN "dto"
    ELSE IF detect_specification(c) THEN "specification"
    ELSE IF detect_value_object(c) THEN "value_object"
    ELSE IF detect_domain_event(c) THEN "domain_event"
    ELSE IF detect_event_handler(c) THEN "event_handler"
    ELSE IF c.class_kind = "interface" THEN "interface"
    ELSE "other"

-----------------------------------------------------------------------------
(* Inputs: the parsed classes and the projects of the solution *)

Param(n, t) == [name |-> n, type_name |-> t]

Class(name, ns, path, kind, bases, ifaces, ctors) ==
    [name |-> name, namespace |-> ns, file_path |-> path, class_kind |-> kind,
     base_classes |-> bases, interfaces |-> ifaces, properties |-> <<>>,
     methods |-> <<>>, constructors |-> ctors, attributes |-> <<>>]

SrcPath(dir, file) == <<"/", "src", "/", dir, "/">> \o file \o <<".cs">>

NsCore  == <<"Shop", ".", "Core">>
NsInfra == <<"Shop", ".", "Infrastructure">>
NsApp   == <<"Shop", ".", "UseCases">>
NsWeb   == <<"Shop", ".", "Web">>
NsTests == <<"Shop", ".", "Tests">>

ClassPool ==
    << Class(<<"Order">>, NsCore, SrcPath("Core", <<"Order">>), "class",
             <<>>, << <<"I", "AggregateRoot">> >>, <<>>),
       Class(<<"Order", "Repository">>, NsInfra,
             SrcPath("Infrastructure", <<"Order", "Repository">>), "class",
             <<>>, << <<"I", "Repository", "<", "Order", ">">> >>, <<>>),
       Class(<<"Create", "Order", "Command">>, NsApp,
             SrcPath("UseCases", <<"Create", "Order">>), "class",
             <<>>, << <<"I", "Request">> >>, <<>>),
       Class(<<"Create", "Order", "Handler">>, NsApp,
             SrcPath("UseCases", <<"Create", "Order">>), "class",
             <<>>, << <<"I", "Request", "Handler", "<", "Create", "Order", "Command", ">">> >>,
             << << Param("repository", <<"Order", "Repository">>) >> >>),
       Class(<<"Create">>, NsWeb, SrcPath("Web", <<"Create">>), "class",
             << <<"Endpoint", "<", "Create", "Order", "Request", ">">> >>, <<>>,
             << << Param("command", <<"Create", "Order", "Command">>) >> >>),
       Class(<<"Order", "Tests">>, NsTests, SrcPath("Tests", <<"Order", "Tests">>), "class",
             <<>>, <<>>,
             << << Param("handler", <<"Create", "Order", "Handler">>) >> >>),
       Class(<<"Billing">>, NsCore, SrcPath("Core", <<"Billing">>), "class",
             <<>>, <<>>,
             << << Param("shipping", <<"Shipping">>), Param("order", <<"Order">>) >> >>),
       Class(<<"Shipping">>, NsCore, SrcPath("Core", <<"Shipping">>), "class",
             <<>>, <<>>,
             << << Param("billing", <<"Billing">>), Param("order", <<"Order">>) >> >>),
       Class(<<"Shipping">>, NsWeb, SrcPath("Web", <<"Shipping">>), "class",
             << <<"Shipping">> >>, <<>>,
             << << Param("order", <<"Order">>) >> >>) >>

\* classes for name resolution: two classes named Request in two namespaces,
\* a class that refers to Request as constructor parameter, base type and
\* interface, the command of ClassPool, a handler named after the command that
\* implements the handler interface of the command and of a query and takes
\* two repositories, the query,
\* a controller that takes the command as a constructor parameter, and a
\* second command of the same short name in another namespace
RequestPool ==
    << Class(<<"Request">>, NsWeb, SrcPath("Web", <<"Request">>), "class", <<>>, <<>>, <<>>),
       Class(<<"Request">>, NsCore, SrcPath("Core", <<"Request">>), "class", <<>>, <<>>, <<>>),
       Class(<<"Checkout">>, NsApp, SrcPath("UseCases", <<"Checkout">>), "class",
             << <<"Request">> >>, << <<"Request">> >>,
             << << Param("request", <<"Request">>) >> >>),
       ClassPool[3],
       Class(<<"Create", "Order", "Handler">>, NsApp,
             SrcPath("UseCases", <<"Create", "Order">>), "class", <<>>,
             << <<"I", "Request", "Handler", "<", "Create", "Order", "Command", ">">>,
                <<"I", "Request", "Handler", "<", "Get", "Order", "Query", ">">> >>,
             << << Param("checkouts", <<"I", "Repository", "<", "Checkout", ">">>),
                   Param("orders", <<"I", "Repository", "<", "Order", ">">>) >> >>),
       Class(<<"Get", "Order", "Query">>, NsApp, SrcPath("UseCases", <<"Get", "Order">>),
             "class", <<>>, << <<"I", "Request">> >>, <<>>),
       Class(<<"Order", "Controller">>, NsWeb, SrcPath("Web", <<"Order", "Controller">>),
             "class", << <<"Controller", "Base">> >>, <<>>,
             << << Param("command", <<"Create", "Order", "Command">>) >> >>),
       Class(<<"Create", "Order", "Command">>, NsCore,
             SrcPath("Core", <<"Create", "Order", "Command">>), "class",
             <<>>, << <<"I", "Request">> >>, <<>>) >>

\* classes for flow analysis: the class Checkout and the entity Order, both
\* named by a repository parameter of the handler, the command, the handler
\* and the controller
FlowPool ==
    << RequestPool[3], ClassPool[1], RequestPool[4], RequestPool[5], RequestPool[7] >>

\* ProjectInfo: name, path of the .csproj, source_files (the parsers never fill it)
Project(name, dir) ==
    [name |-> <<"Shop", ".", name>>,
     path |-> <<"/", "src", "/", dir, "/", "Shop", ".", name, ".csproj">>,
     source_files |-> <<>>]

SolutionProjects ==
    << Project("Core", "Core"), Project("Infrastructure", "Infrastructure"),
       Project("UseCases", "UseCases"), Project("Web", "Web"), Project("Tests", "Tests") >>

\* all sequences over S of length at most n
RECURSIVE SeqsUpTo(_, _)
SeqsUpTo(S, n) ==
    IF n = 0 THEN { <<>> }
    ELSE LET shorter == SeqsUpTo(S, n - 1) IN
         shorter \cup { Append(q, x) : q \in { r \in shorter : Len(r) = n - 1 },
                                       x \in S } 

-----------------------------------------------------------------------------
(* Dictionaries: a Python dict is a function on its present keys *)

Get(m, k, default) == IF k \in DOMAIN m THEN m[k] ELSE default

Put(m, k, v) == [x \in DOMAIN m \cup {k} |-> IF x = k THEN v ELSE m[x]]

\* graph.nodes: keys in insertion order
NodeName(n) == FullName(n.class_info)
NodeKeys(ns) == { NodeName(ns[i]) : i \in DOMAIN ns }
HasNode(ns, full) == full \in NodeKeys(ns)
NodeOf(ns, full) == ns[CHOOSE i \in DOMAIN ns : NodeName(ns[i]) = full]

\* the enumerations of a set as a list; Python fixes no order for list(set)
Orderings(S) ==
    { q \in [1..Cardinality(S) -> S] : \A i, j \in DOMAIN q : i # j => q[i] # q[j] }

\* the keys whose listing order is open: members of an index entry of size >= 2
AmbiguousKeys(index) ==
    UNION { index[k] : k \in { x \in DOMAIN index : Cardinality(index[x]) >= 2 } }

ListOf(S, ord) ==
    IF S = {} THEN <<>>
    ELSE IF Cardinality(S) = 1 THEN << CHOOSE x \in S : TRUE >>
    ELSE SelectSeq(ord, LAMBDA x : x \in S)

-----------------------------------------------------------------------------
(* DependencyGraph *)

GraphNode(cls, role, project, layer) ==
    [class_info |-> cls, role |-> role, project |-> project, layer |-> layer]

GraphEdge(source, target, edge_type, label) ==
    [source |-> source, target |-> target, edge_type |-> edge_type, label |-> label]

\* add_node on the pair (nodes, short_name_index)
AddNodeNodes(ns, node) ==
    IF HasNode(ns, NodeName(node))
    THEN [i \in DOMAIN ns |-> IF NodeName(ns[i]) = NodeName(node) THEN node ELSE ns[i]]
    ELSE Append(ns, node)

\* add_node filing the class under its short name by plain assignment
AddNodeIndexOverwrite(index, name, full) == Put(index, name, {full})

AddNodeIndex(index, name, full) == Put(index, name, Get(index, name, {}) \cup {full})

\* add_edge that does not file the edge in the reverse index
AddEdgeNoReverse(g, e) ==
    [edges    |-> Append(g.edges, e),
     incoming |-> g.incoming,
     outgoing |-> Put(g.outgoing, e.source, Append(Get(g.outgoing, e.source, <<>>), e))]

\* add_edge that assigns the forward list of the source instead of appending
AddEdgeAssignForward(g, e) ==
    [edges    |-> Append(g.edges, e),
     incoming |-> Put(g.incoming, e.target, Append(Get(g.incoming, e.target, <<>>), e)),
     outgoing |-> Put(g.outgoing, e.source, <<e>>)]

\* add_edge on the triple (edges, _incoming, _outgoing)
add_edge(g, e) ==
    [edges    |-> Append(g.edges, e),
     incoming |-> Put(g.incoming, e.target, Append(Get(g.incoming, e.target, <<>>), e)),
     outgoing |-> Put(g.outgoing, e.source, Append(Get(g.outgoing, e.source, <<>>), e))]

RECURSIVE AddEdges(_, _)
AddEdges(g, es) ==
    IF es = <<>> THEN g ELSE AddEdges(add_edge(g, Head(es)), Tail(es))

\* resolve_name giving only the candidate the set happens to list first
ResolveFirstListed(index, short_name, ord) ==
    LET listed == ListOf(Get(index, _strip_generic(short_name), {}), ord) IN
    IF listed = <<>> THEN <<>> ELSE << listed[1] >>

resolve_name(index, short_name, ord) ==
    ListOf(Get(index, _strip_generic(short_name), {}), ord)

\* _add_resolved_edge that stops at the first candidate
ResolvedEdgeFirstOnly(index, source, target_name, edge_type, label, ord) ==
    LET candidates == resolve_name(index, _strip_generic(target_name), ord)
        kept == SelectSeq(candidates, LAMBDA full : full # source) IN
    IF kept = <<>> THEN <<>> ELSE << GraphEdge(source, kept[1], edge_type, label) >>

\* the edges _add_resolved_edge inserts, in insertion order
ResolvedEdgesNoCheck(index, source, target_name, edge_type, label, ord) ==
    LET candidates == resolve_name(index, _strip_generic(target_name), ord) IN
    [i \in DOMAIN candidates |-> GraphEdge(source, candidates[i], edge_type, label)]

_add_resolved_edge(index, source, target_name, edge_type, label, ord) ==
    LET candidates == resolve_name(index, _strip_generic(target_name), ord)
        kept == SelectSeq(candidates, LAMBDA full : full # source) IN
    [i \in DOMAIN kept |-> GraphEdge(source, kept[i], edge_type, label)]

-----------------------------------------------------------------------------
(* build_dependency_graph *)

Parent(path) ==
    LET slashes == { i \in DOMAIN path : path[i] = "/" } IN
    IF slashes = {} THEN <<".">>
    ELSE LET last == CHOOSE i \in slashes : \A j \in slashes : j <= i IN
         IF last = 1 THEN <<"/">> ELSE SubSeq(path, 1, last - 1)

Normalize(path) == [i \in DOMAIN path |-> IF path[i] = "\\" THEN "/" ELSE path[i]]

\* _project_for_class: file set, then directory containment, then namespace
_project_for_class(projects, cls) ==
    LET byFile == { i \in DOMAIN projects : InList(cls.file_path, projects[i].source_files) }
        cls_path == Normalize(cls.file_path)
        byDir == { i \in DOMAIN projects :
                     LET proj_dir == Normalize(projects[i].path) IN
                     /\ proj_dir # <<>>
                     /\ IsPrefix(IF InList("/", proj_dir) THEN
                                    LET sl == { k \in DOMAIN proj_dir : proj_dir[k] = "/" }
                                        last == CHOOSE k \in sl : \A j \in sl : j <= k
                                    IN SubSeq(proj_dir, 1, last - 1)
                                 ELSE <<>>, cls_path)
                     /\ IsPrefix(Normalize(Parent(projects[i].path)), cls_path) }
        byNs == { i \in DOMAIN projects :
                    Contains(LowerSeq(RemoveToken(cls.namespace, ".")),
                             LowerSeq(RemoveToken(projects[i].name, "."))) }
        Last(S) == CHOOSE i \in S : \A j \in S : j <= i
        First(S) == CHOOSE i \in S : \A j \in S : i <= j
    IN IF byFile # {} THEN projects[Last(byFile)].name
       ELSE IF byDir # {} THEN projects[First(byDir)].name
       ELSE IF byNs # {} THEN projects[First(byNs)].name
       ELSE <<>>

\* Step 1, one class: classify and register it
Step1AddNode ==
    /\ pc = "step1" /\ idx <= Len(all_classes)
    /\ LET cls == all_classes[idx]
           project == _project_for_class(SolutionProjects, cls)
           role == _classify_role(cls)
           layer == _classify_layer(project, cls)
       IN /\ nodes' = AddNodeNodes(nodes, GraphNode(cls, role, project, layer))
          /\ short_name_index' = AddNodeIndex(short_name_index, cls.name, FullName(cls))
    /\ idx' = idx + 1
    /\ UNCHANGED <<all_classes, edges, interface_map, incoming, outgoing, flows, pc,
                   result, tvars>>

\* Step 2, one class: interface -> implementation map
RECURSIVE MapInterfaces(_, _, _)
MapInterfaces(imap, fulls, impl) ==
    IF fulls = <<>> THEN imap
    ELSE MapInterfaces(Put(imap, Head(fulls), Append(Get(imap, Head(fulls), <<>>), impl)),
                       Tail(fulls), impl)

RECURSIVE InterfaceTargets(_, _, _)
InterfaceTargets(index, ifaces, ord) ==
    IF ifaces = <<>> THEN <<>>
    ELSE resolve_name(index, _strip_generic(Head(ifaces)), ord)
         \o InterfaceTargets(index, Tail(ifaces), ord)

Step2InterfaceMap ==
    /\ pc = "step2" /\ idx <= Len(all_classes)
    /\ \E ord \in Orderings(AmbiguousKeys(short_name_index)) :
         LET cls == all_classes[idx] IN
         interface_map' = MapInterfaces(interface_map,
                              InterfaceTargets(short_name_index, cls.interfaces, ord),
                              FullName(cls))
    /\ idx' = idx + 1
    /\ UNCHANGED <<all_classes, nodes, edges, incoming, outgoing, short_name_index,
                   flows, pc, result, tvars>>

\* Step 3, one class: injects, inherits and implements edges
Label(prefix, text) == <<prefix>> \o text

RECURSIVE EdgesOfRefs(_, _, _, _, _, _)
EdgesOfRefs(index, src, refs, edge_type, prefix, ord) ==
    IF refs = <<>> THEN <<>>
    ELSE _add_resolved_edge(index, src, Head(refs).type_name, edge_type,
                            Label(prefix, Head(refs).name), ord)
         \o EdgesOfRefs(index, src, Tail(refs), edge_type, prefix, ord)

\* a base class or interface reference seen as a (label text, type) pair
SelfNamed(types) == [i \in DOMAIN types |-> Param(types[i], types[i])]

Step3Edges(index, cls, ord) ==
    LET src == FullName(cls) IN
    EdgesOfRefs(index, src, CtorParams(cls), "injects", "constructor param: ", ord)
    \o EdgesOfRefs(index, src, SelfNamed(cls.base_classes), "inherits", "extends ", ord)
    \o EdgesOfRefs(index, src, SelfNamed(cls.interfaces), "implements", "implements ", ord)

Graph == [edges |-> edges, incoming |-> incoming, outgoing |-> outgoing]

SetGraph(g) == /\ edges' = g.edges /\ incoming' = g.incoming /\ outgoing' = g.outgoing

Step3AddEdges ==
    /\ pc = "step3" /\ idx <= Len(all_classes)
    /\ \E ord \in Orderings(AmbiguousKeys(short_name_index)) :
         SetGraph(AddEdges(Graph, Step3Edges(short_name_index, all_classes[idx], ord)))
    /\ idx' = idx + 1
    /\ UNCHANGED <<all_classes, nodes, interface_map, short_name_index, flows, pc,
                   result, tvars>>

\* Step 4: handler <-> command / query
NodesWithRole(ns, roles) == SelectSeq(ns, LAMBDA n : n.role \in roles)

\* the command nodes alone
CommandNodes(ns) == NodesWithRole(ns, {"command"})

command_query_nodes(ns) == NodesWithRole(ns, {"command", "query"})

\* cq_by_name: the keys, and the node kept for a key (the last one registered)
InCqByName(ns, name) ==
    \E i \in DOMAIN command_query_nodes(ns) : command_query_nodes(ns)[i].class_info.name = name

cq_by_name(ns, name) ==
    LET cq == command_query_nodes(ns)
        last == CHOOSE i \in DOMAIN cq :
                   /\ cq[i].class_info.name = name
                   /\ \A j \in DOMAIN cq : cq[j].class_info.name = name => j <= i
    IN cq[last]

\* keys of cq_by_name in dict order (first insertion)
CqNames(ns) ==
    LET cq == command_query_nodes(ns)
        firsts == SelectSeq([i \in DOMAIN cq |-> i],
                     LAMBDA i : \A j \in 1..(i - 1) : cq[j].class_info.name # cq[i].class_info.name)
    IN [k \in DOMAIN firsts |-> cq[firsts[k]].class_info.name]

ConventionEdges(ns, handler_node) ==
    LET base == RemoveToken(handler_node.class_info.name, "Handler")
        Edge(candidate) == GraphEdge(NodeName(handler_node), NodeName(cq_by_name(ns, candidate)),
                                     "handles", Label("handles ", candidate))
    IN IF InCqByName(ns, base \o <<"Command">>) THEN << Edge(base \o <<"Command">>) >>
       ELSE IF InCqByName(ns, base \o <<"Query">>) THEN << Edge(base \o <<"Query">>) >>
       ELSE <<>>

\* the generic-argument loop without its "already" test
RECURSIVE GenericHandlesNoCheck(_, _, _, _)
GenericHandlesNoCheck(g, ns, handler_node, ifaces) ==
    IF ifaces = <<>> THEN g
    ELSE LET arg == _extract_generic_arg(Head(ifaces)) IN
         IF arg # <<>> /\ InCqByName(ns, arg)
         THEN GenericHandlesNoCheck(
                  add_edge(g, GraphEdge(NodeName(handler_node),
                                        NodeName(cq_by_name(ns, arg)), "handles",
                                        Label("handles ", arg))),
                  ns, handler_node, Tail(ifaces))
         ELSE GenericHandlesNoCheck(g, ns, handler_node, Tail(ifaces))

\* the generic-argument loop run only for a handler without a convention match
GenericHandlesElse(g, ns, handler_node, ifaces) ==
    IF ConventionEdges(ns, handler_node) # <<>> THEN g
    ELSE GenericHandlesNoCheck(g, ns, handler_node, ifaces)

RECURSIVE GenericHandles(_, _, _, _)
GenericHandles(g, ns, handler_node, ifaces) ==
    IF ifaces = <<>> THEN g
    ELSE LET arg == _extract_generic_arg(Head(ifaces)) IN
         IF arg # <<>> /\ InCqByName(ns, arg)
         THEN LET target == NodeName(cq_by_name(ns, arg))
                  already == \E i \in DOMAIN g.edges :
                                 /\ g.edges[i].source = NodeName(handler_node)
                                 /\ g.edges[i].target = target
                                 /\ g.edges[i].edge_type = "handles"
              IN GenericHandles(
                     IF already THEN g
                     ELSE add_edge(g, GraphEdge(NodeName(handler_node), target, "handles",
                                                Label("handles ", arg))),
                     ns, handler_node, Tail(ifaces))
         ELSE GenericHandles(g, ns, handler_node, Tail(ifaces))

Step4Handles ==
    /\ pc = "step4" /\ idx <= Len(NodesWithRole(nodes, {"handler"}))
    /\ LET handler_node == NodesWithRole(nodes, {"handler"})[idx] IN
       SetGraph(GenericHandles(AddEdges(Graph, ConventionEdges(nodes, handler_node)),
                               nodes, handler_node, handler_node.class_info.interfaces))
    /\ idx' = idx + 1
    /\ UNCHANGED <<all_classes, nodes, interface_map, short_name_index, flows, pc,
                   result, tvars>>

\* Step 5: endpoint -> command / query
\* the parameter edges with a label that leaves the name out
SendsByParamPlainLabel(ns, ep_node, params) ==
    LET hits == SelectSeq(params, LAMBDA p : InCqByName(ns, _strip_generic(p.type_name)))
    IN [i \in DOMAIN hits |->
          GraphEdge(NodeName(ep_node),
                    NodeName(cq_by_name(ns, _strip_generic(hits[i].type_name))),
                    "sends", <<"dispatches ">>)]

RECURSIVE SendsByParam(_, _, _)
SendsByParam(ns, ep_node, params) ==
    IF params = <<>> THEN <<>>
    ELSE LET stripped == _strip_generic(Head(params).type_name) IN
         (IF InCqByName(ns, stripped)
          THEN << GraphEdge(NodeName(ep_node), NodeName(cq_by_name(ns, stripped)), "sends",
                            Label("dispatches ", stripped)) >>
          ELSE <<>>)
         \o SendsByParam(ns, ep_node, Tail(params))

RECURSIVE SendsByBase(_, _, _)
SendsByBase(ns, ep_node, bases) ==
    IF bases = <<>> THEN <<>>
    ELSE LET arg == _extract_generic_arg(Head(bases))
             names == CqNames(ns)
             hits == SelectSeq(names, LAMBDA cq_name :
                                   IsPrefix(RemoveToken(arg, "Request"), cq_name))
         IN (IF arg # <<>>
             THEN [i \in DOMAIN hits |->
                     GraphEdge(NodeName(ep_node), NodeName(cq_by_name(ns, hits[i])), "sends",
                               Label("dispatches ", hits[i]))]
             ELSE <<>>)
            \o SendsByBase(ns, ep_node, Tail(bases))

Step5Sends ==
    /\ pc = "step5" /\ idx <= Len(NodesWithRole(nodes, {"endpoint"}))
    /\ LET ep_node == NodesWithRole(nodes, {"endpoint"})[idx] IN
       SetGraph(AddEdges(Graph,
                    SendsByParam(nodes, ep_node, CtorParams(ep_node.class_info))
                    \o SendsByBase(nodes, ep_node, ep_node.class_info.base_classes)))
    /\ idx' = idx + 1
    /\ UNCHANGED <<all_classes, nodes, interface_map, short_name_index, flows, pc,
                   result, tvars>>

\* the end of a step's loop: go on to the next step
StepLength ==
    CASE pc \in {"step1", "step2", "step3"} -> Len(all_classes)
      [] pc = "step4" -> Len(NodesWithRole(nodes, {"handler"}))
      [] pc = "step5" -> Len(NodesWithRole(nodes, {"endpoint"}))
      [] OTHER -> 0

NextPc ==
    CASE pc = "step1" -> "step2" [] pc = "step2" -> "step3" [] pc = "step3" -> "step4"
      [] pc = "step4" -> "step5"
      [] pc = "step5" -> IF result.op = "rebuild" THEN "rebuilt" ELSE "built"
      [] OTHER -> pc

StepDone ==
    /\ pc \in {"step1", "step2", "step3", "step4", "step5"}
    /\ idx > StepLength
    /\ pc' = NextPc /\ idx' = 1
    /\ UNCHANGED <<all_classes, nodes, edges, interface_map, incoming, outgoing,
                   short_name_index, flows, result, tvars>>

\* DependencyGraph() whose edge list and adjacency indices are those at hand
GraphKeepingEdges ==
    [nodes |-> <<>>, edges |-> edges, interface_map |-> <<>>, incoming |-> incoming,
     outgoing |-> outgoing, short_name_index |-> <<>>]

\* DependencyGraph(): every table of a new graph is empty
NewGraph ==
    [nodes |-> <<>>, edges |-> <<>>, interface_map |-> <<>>, incoming |-> <<>>,
     outgoing |-> <<>>, short_name_index |-> <<>>]

\* the six tables of the graph at hand
BuiltGraph ==
    [nodes |-> nodes, edges |-> edges, interface_map |-> interface_map,
     incoming |-> incoming, outgoing |-> outgoing, short_name_index |-> short_name_index]

\* build_dependency_graph is called again, by the next run: on the same class
\* list, or on the list without its last class (a file went away); the graph
\* of the first call is kept aside in result.  The second build ends the run.
Rebuild ==
    /\ pc = "built" /\ result.op = "none"
    /\ result' = [op |-> "rebuild", previous |-> BuiltGraph, classes |-> all_classes]
    /\ all_classes' \in { all_classes, SubSeq(all_classes, 1, Len(all_classes) - 1) }
    /\ nodes' = NewGraph.nodes /\ edges' = NewGraph.edges
    /\ interface_map' = NewGraph.interface_map
    /\ incoming' = NewGraph.incoming /\ outgoing' = NewGraph.outgoing
    /\ short_name_index' = NewGraph.short_name_index
    /\ pc' = "step1" /\ idx' = 1
    /\ UNCHANGED <<flows, tvars>>

\* resolve_name called on a built graph
ResolveArgs ==
    { <<"Request">>, <<"Request", "<", "Order", ">">>, <<"Create", "Order", "Command">>,
      <<"Checkout">>, <<"Missing">> }

ResolveName ==
    /\ pc = "built"
    /\ \E s \in ResolveArgs, ord \in Orderings(AmbiguousKeys(short_name_index)) :
         result' = [op |-> "resolve_name", short_name |-> s,
                    value |-> resolve_name(short_name_index, s, ord)]
    /\ pc' = "done"
    /\ UNCHANGED <<all_classes, nodes, edges, interface_map, incoming, outgoing,
                   short_name_index, flows, idx, tvars>>

-----------------------------------------------------------------------------
(* Traversal *)

\* get_dependents / get_dependencies: one-hop neighbours that are nodes
get_dependents(ns, inc, class_name) ==
    LET es == SelectSeq(Get(inc, class_name, <<>>), LAMBDA e : HasNode(ns, e.source))
    IN [i \in DOMAIN es |-> es[i].source]

get_dependencies(ns, out, class_name) ==
    LET es == SelectSeq(Get(out, class_name, <<>>), LAMBDA e : HasNode(ns, e.target))
    IN [i \in DOMAIN es |-> es[i].target]

\* the while loop of get_all_upstream (dir = "up", along _incoming to the
\* sources) and of get_all_downstream (dir = "down", along _outgoing to the
\* targets): a FIFO queue of (name, depth) pairs and a visited set
FarEnd(dir, e) == IF dir = "up" THEN e.source ELSE e.target

\* one pass of the loop body that takes the head off the queue only when it
\* goes on to visit it
BfsIterationKeepHead(adj, dir, queue, visited, max_depth) ==
    LET current == Head(queue)[1]
        depth == Head(queue)[2]
    IN IF current \in visited \/ depth > max_depth
       THEN [queue |-> queue, visited |-> visited]
       ELSE LET seen == visited \cup {current}
                fresh == SelectSeq(Get(adj, current, <<>>),
                                   LAMBDA e : FarEnd(dir, e) \notin seen)
            IN [queue |-> Tail(queue) \o [i \in DOMAIN fresh |->
                                             <<FarEnd(dir, fresh[i]), depth + 1>>],
                visited |-> seen]

\* one pass of the loop body on a queue that is not empty
BfsIteration(adj, dir, queue, visited, max_depth) ==
    LET current == Head(queue)[1]
        depth == Head(queue)[2]
    IN IF current \in visited \/ depth > max_depth
       THEN [queue |-> Tail(queue), visited |-> visited]
       ELSE LET seen == visited \cup {current}
                fresh == SelectSeq(Get(adj, current, <<>>),
                                   LAMBDA e : FarEnd(dir, e) \notin seen)
            IN [queue |-> Tail(queue) \o [i \in DOMAIN fresh |->
                                             <<FarEnd(dir, fresh[i]), depth + 1>>],
                visited |-> seen]

RECURSIVE Bfs(_, _, _, _, _)
Bfs(adj, dir, queue, visited, max_depth) ==
    IF queue = <<>> THEN visited
    ELSE LET after == BfsIteration(adj, dir, queue, visited, max_depth)
         IN Bfs(adj, dir, after.queue, after.visited, max_depth)

\* get_all_upstream with the depth cap off by one
UpstreamCapOffByOne(inc, class_name, max_depth) ==
    Bfs(inc, "up", << <<class_name, 0>> >>, {}, max_depth + 1) \ {class_name}

get_all_upstream(inc, class_name, max_depth) ==
    Bfs(inc, "up", << <<class_name, 0>> >>, {}, max_depth) \ {class_name}

get_all_downstream(out, class_name, max_depth) ==
    Bfs(out, "down", << <<class_name, 0>> >>, {}, max_depth) \ {class_name}

\* One call is made on a built graph: the caller (the impact command, an update
\* run) analyses once and ends.
PoolNames == { FullName(ClassPool[i]) : i \in DOMAIN ClassPool }

GetAllUpstream ==
    /\ pc = "ready"
    /\ \E x \in PoolNames, d \in 0..MaxDepthArg :
         result' = [op |-> "get_all_upstream", class_name |-> x, max_depth |-> d,
                    value |-> get_all_upstream(incoming, x, d)]
    /\ pc' = "done"
    /\ UNCHANGED <<all_classes, nodes, edges, interface_map, incoming, outgoing,
                   short_name_index, flows, idx, tvars>>

GetAllDownstream ==
    /\ pc = "ready"
    /\ \E x \in PoolNames, d \in 0..MaxDepthArg :
         result' = [op |-> "get_all_downstream", class_name |-> x, max_depth |-> d,
                    value |-> get_all_downstream(outgoing, x, d)]
    /\ pc' = "done"
    /\ UNCHANGED <<all_classes, nodes, edges, interface_map, incoming, outgoing,
                   short_name_index, flows, idx, tvars>>

\* A traversal followed pass by pass: the call, each pass of its while loop
\* and its return
BfsStart ==
    /\ pc = "built"
    /\ \E dir \in {"up", "down"}, x \in PoolNames, d \in 0..MaxDepthArg :
         result' = [op |-> "traverse", dir |-> dir, class_name |-> x, max_depth |-> d,
                    queue |-> << <<x, 0>> >>, visited |-> {}]
    /\ pc' = "bfs"
    /\ UNCHANGED <<all_classes, nodes, edges, interface_map, incoming, outgoing,
                   short_name_index, flows, idx, tvars>>

BfsLoop ==
    /\ pc = "bfs" /\ result.queue # <<>>
    /\ LET after == BfsIteration(IF result.dir = "up" THEN incoming ELSE outgoing,
                                  result.dir, result.queue, result.visited, result.max_depth)
       IN result' = [result EXCEPT !.queue = after.queue, !.visited = after.visited]
    /\ UNCHANGED <<all_classes, nodes, edges, interface_map, incoming, outgoing,
                   short_name_index, flows, pc, idx, tvars>>

BfsReturn ==
    /\ pc = "bfs" /\ result.queue = <<>>
    /\ result' = [op |-> IF result.dir = "up" THEN "get_all_upstream"
                         ELSE "get_all_downstream",
                  class_name |-> result.class_name, max_depth |-> result.max_depth,
                  value |-> result.visited \ {result.class_name}]
    /\ pc' = "done"
    /\ UNCHANGED <<all_classes, nodes, edges, interface_map, incoming, outgoing,
                   short_name_index, flows, idx, tvars>>

-----------------------------------------------------------------------------
(* analyze_flows *)

FlowStep(class_name, role, action, file_path, project, layer) ==
    [class_name |-> class_name, role |-> role, action |-> action,
     file_path |-> file_path, project |-> project, layer |-> layer]

\* " ".join(words)
RECURSIVE Join(_)
Join(words) ==
    IF Len(words) <= 1 THEN words ELSE <<Head(words), " ">> \o Join(Tail(words))

\* str.split()
Split(text) == SelectSeq(text, LAMBDA t : t # " ")

\* every token of a class name of the model is one PascalCase word
_derive_flow_name(cq_name) ==
    LET base == IF IsSuffix(<<"Command">>, cq_name) \/ IsSuffix(<<"Query">>, cq_name)
                THEN SubSeq(cq_name, 1, Len(cq_name) - 1) ELSE cq_name
    IN Join(base)

_derive_http_method(flow_name, cq_role) ==
    LET lower == LowerSeq(flow_name)
        Starts(ks) == \E k \in ks : IsPrefix(<<k>>, lower)
    IN IF cq_role = "query" THEN "GET"
       ELSE IF Starts({"create", "add", "register"}) THEN "POST"
       ELSE IF Starts({"update", "edit", "modify"}) THEN "PUT"
       ELSE IF Starts({"delete", "remove"}) THEN "DELETE"
       ELSE IF Starts({"list", "get", "find"}) THEN "GET"
       ELSE "POST"

\* str.endswith("s") on one word
EndsInS(word) == word \in {"Tests", "UseCases", "Orders"}

\* endpoint is <<>> for None, <<node>> otherwise
_derive_route(endpoint, flow_name) ==
    LET attrs == IF endpoint = <<>> THEN <<>> ELSE endpoint[1].class_info.attributes
        routed == SelectSeq(attrs, LAMBDA a : Contains(a, <<"Route">>) \/ Contains(a, <<"Http">>))
        parts == Split(flow_name)
    IN IF routed # <<>> THEN Head(routed)
       ELSE IF Len(parts) >= 2
            THEN <<"/api/", parts[Len(parts)]>>
                 \o (IF EndsInS(parts[Len(parts)]) THEN <<>> ELSE <<"s">>)
       ELSE <<"/api/unknown">>

\* cq_to_handler / cq_to_endpoint: the source node of the last edge of the
\* given type into cq_full, <<>> when there is none
LastSourceInto(ns, es, edge_type, cq_full) ==
    LET hits == SelectSeq(es, LAMBDA e : /\ e.edge_type = edge_type /\ e.target = cq_full
                                          /\ HasNode(ns, e.source) /\ HasNode(ns, e.target))
    IN IF hits = <<>> THEN <<>> ELSE << NodeOf(ns, hits[Len(hits)].source) >>

resolve_interface(ns, index, imap, interface_name, ord) ==
    LET fulls == resolve_name(index, _strip_generic(interface_name), ord)
        impls == Flatten([i \in DOMAIN fulls |-> Get(imap, fulls[i], <<>>)])
        found == SelectSeq(impls, LAMBDA full : HasNode(ns, full))
    IN [i \in DOMAIN found |-> NodeOf(ns, found[i])]

IsRepositoryParam(param) ==
    Contains(LowerSeq(_strip_generic(param.type_name)), <<"repository">>)

\* the steps one constructor parameter of the handler adds
ParamSteps(ns, index, imap, param, ord) ==
    IF ~IsRepositoryParam(param) THEN <<>>
    ELSE LET generic_arg == _extract_generic_arg(param.type_name)
             impl_nodes == resolve_interface(ns, index, imap, param.type_name, ord)
             repo == IF impl_nodes # <<>>
                     THEN FlowStep(NodeName(impl_nodes[1]), "repository",
                                   <<"persists/retrieves data">>,
                                   impl_nodes[1].class_info.file_path,
                                   impl_nodes[1].project, impl_nodes[1].layer)
                     ELSE FlowStep(param.type_name, "repository",
                                   <<"persists/retrieves data">>, <<>>, <<>>, "Infrastructure")
             entities == IF generic_arg = <<>> THEN <<>>
                         ELSE SelectSeq(resolve_name(index, generic_arg, ord),
                                        LAMBDA full : HasNode(ns, full))
         IN <<repo>> \o
            (IF entities = <<>> THEN <<>>
             ELSE LET n == NodeOf(ns, entities[1]) IN
                  << FlowStep(entities[1], "entity", <<"domain entity">>,
                              n.class_info.file_path, n.project, n.layer) >>)

\* aggregate_name after the parameter loop: every match overwrites it
RECURSIVE AggregateAfter(_, _, _, _, _)
AggregateAfter(ns, index, params, ord, acc) ==
    IF params = <<>> THEN acc
    ELSE LET param == Head(params)
             generic_arg == _extract_generic_arg(param.type_name)
             cands == IF IsRepositoryParam(param) /\ generic_arg # <<>>
                      THEN SelectSeq(resolve_name(index, generic_arg, ord),
                               LAMBDA full : /\ HasNode(ns, full)
                                             /\ NodeOf(ns, full).role \in {"entity", "other"})
                      ELSE <<>>
         IN AggregateAfter(ns, index, Tail(params), ord,
                IF cands = <<>> THEN acc
                ELSE NodeOf(ns, cands[Len(cands)]).class_info.name)

CrossCuttingOf(param) ==
    LET low == LowerSeq(_strip_generic(param.type_name)) IN
    IF IsRepositoryParam(param) THEN <<>>
    ELSE IF Contains(low, <<"mediator">>) \/ Contains(low, <<"logger">>) THEN <<>>
    ELSE IF Contains(low, <<"validator">>) THEN << Label("Validator: ", param.type_name) >>
    ELSE IF Contains(low, <<"behavior">>) \/ Contains(low, <<"pipeline">>)
         THEN << Label("Pipeline: ", param.type_name) >>
    ELSE <<>>

SideEffectsOf(handler_cls) ==
    LET hits == SelectSeq(handler_cls.methods, LAMBDA m :
                    \/ Contains(LowerSeq(m.name), <<"event">>)
                    \/ Contains(LowerSeq(m.name), <<"notify">>)
                    \/ Contains(LowerSeq(m.name), <<"publish">>))
    IN [i \in DOMAIN hits |-> <<"Raises event via ">> \o hits[i].name \o <<"()">>]

\* the validators matched to a flow in the closing pass
ValidatorsFor(ns, command_or_query) ==
    LET vs == SelectSeq(ns, LAMBDA n :
                  /\ IsSuffix(<<"Validator">>, n.class_info.name)
                  /\ RemoveToken(n.class_info.name, "Validator")
                       = RemoveToken(RemoveToken(command_or_query, "Command"), "Query"))
    IN [i \in DOMAIN vs |-> Label("FluentValidation: ", vs[i].class_info.name)]

FlowOf(ns, es, index, imap, cq_node, ord) ==
    LET cq_full == NodeName(cq_node)
        flow_name == _derive_flow_name(cq_node.class_info.name)
        http_method == _derive_http_method(flow_name, cq_node.role)
        ep == LastSourceInto(ns, es, "sends", cq_full)
        handler == LastSourceInto(ns, es, "handles", cq_full)
        params == IF handler = <<>> THEN <<>> ELSE CtorParams(handler[1].class_info)
        ep_steps == IF ep = <<>> THEN <<>>
                    ELSE << FlowStep(NodeName(ep[1]), "endpoint", <<"receives HTTP ", http_method>>,
                                     ep[1].class_info.file_path, ep[1].project, ep[1].layer) >>
        cq_step == FlowStep(cq_full, cq_node.role, <<"CQRS ", cq_node.role, " message">>,
                            cq_node.class_info.file_path, cq_node.project, cq_node.layer)
        handler_steps ==
            IF handler = <<>> THEN <<>>
            ELSE << FlowStep(NodeName(handler[1]), "handler", <<"handles ", cq_node.role>>,
                             handler[1].class_info.file_path, handler[1].project,
                             handler[1].layer) >>
                 \o Flatten([i \in DOMAIN params |-> ParamSteps(ns, index, imap, params[i], ord)])
    IN [name |-> flow_name,
        entry_point |-> <<http_method, " ">> \o _derive_route(ep, flow_name),
        http_method |-> http_method,
        steps |-> ep_steps \o <<cq_step>> \o handler_steps,
        command_or_query |-> cq_node.class_info.name,
        aggregate |-> AggregateAfter(ns, index, params, ord, <<>>),
        side_effects |-> IF handler = <<>> THEN <<>> ELSE SideEffectsOf(handler[1].class_info),
        cross_cutting |-> Flatten([i \in DOMAIN params |-> CrossCuttingOf(params[i])])
                          \o ValidatorsFor(ns, cq_node.class_info.name)]

analyze_flows(ns, es, index, imap, ord) ==
    LET cq_nodes == command_query_nodes(ns) IN
    [i \in DOMAIN cq_nodes |-> FlowOf(ns, es, index, imap, cq_nodes[i], ord)]

\* RequestFlow.slug
Slug(flow) == [i \in DOMAIN flow.name |->
                  IF flow.name[i] = " " THEN "-" ELSE Lower(flow.name[i])]

AnalyzeFlows ==
    /\ pc = "built"
    /\ \E ord \in Orderings(AmbiguousKeys(short_name_index)) :
         flows' = analyze_flows(nodes, edges, short_name_index, interface_map, ord)
    /\ pc' = "ready"
    /\ UNCHANGED <<all_classes, nodes, edges, interface_map, incoming, outgoing,
                   short_name_index, idx, result, tvars>>

-----------------------------------------------------------------------------
(* ImpactAnalyzer.analyze_impact *)

ImpactedItem(name, item_type, impact_level, reason, file_path) ==
    [name |-> name, item_type |-> item_type, impact_level |-> impact_level,
     reason |-> reason, file_path |-> file_path]

\* Path.resolve(): a relative path is taken from the working directory
Cwd == <<"/", "src", "/", "Core">>
Resolve(path) == IF path # <<>> /\ path[1] = "/" THEN path ELSE Cwd \o <<"/">> \o path

\* step 1: the classes declared in the changed files
PathMatches(node_path, f_path) ==
    node_path = f_path \/ IsSuffix(f_path, node_path) \/ IsSuffix(node_path, f_path)

\* step 1 taking every class of the graph as changed
ChangedClassesAll(ns, changed_files) == NodeKeys(ns)

ChangedClasses(ns, changed_files) ==
    { NodeName(ns[i]) : i \in { k \in DOMAIN ns :
          \E j \in DOMAIN changed_files :
              PathMatches(Normalize(ns[k].class_info.file_path),
                          Normalize(changed_files[j])) } }

\* the test deciding "indirect", as the comment above it states it
IsIndirectByDirect(ns, out, upstream_name, changed_classes, direct_impacts) ==
    \E i \in DOMAIN get_dependencies(ns, out, upstream_name) :
        get_dependencies(ns, out, upstream_name)[i] \in direct_impacts

\* the test deciding "indirect", as the loop body performs it
IsIndirect(ns, out, upstream_name, changed_classes, direct_impacts) ==
    \E i \in DOMAIN get_dependencies(ns, out, upstream_name) :
        get_dependencies(ns, out, upstream_name)[i] \in changed_classes

\* step 2, one pass of "for cls_name in changed_classes" on the three sets
ImpactPass(ns, inc, out, changed_classes, max_depth, acc, cls_name) ==
    LET direct == acc.direct \cup
                    { d \in Range(get_dependents(ns, inc, cls_name)) : d \notin changed_classes }
        todo == { u \in get_all_upstream(inc, cls_name, max_depth) :
                    u \notin changed_classes /\ u \notin direct /\ HasNode(ns, u) }
        ind == { u \in todo : IsIndirect(ns, out, u, changed_classes, direct) }
    IN [direct |-> direct, indirect |-> acc.indirect \cup ind,
        transitive |-> acc.transitive \cup (todo \ ind)]

RECURSIVE ImpactSets(_, _, _, _, _, _, _)
ImpactSets(ns, inc, out, changed_classes, max_depth, acc, todo) ==
    IF todo = <<>> THEN acc
    ELSE ImpactSets(ns, inc, out, changed_classes, max_depth,
                    ImpactPass(ns, inc, out, changed_classes, max_depth, acc, Head(todo)),
                    Tail(todo))

_build_reason(ns, es, out, cls_name, changed_classes, level) ==
    LET deps == SelectSeq(get_dependencies(ns, out, cls_name),
                          LAMBDA d : d \in changed_classes)
    IN IF deps = <<>> THEN <<level, " dependency on changed classes">>
       ELSE LET hit == SelectSeq(es, LAMBDA e : e.source = cls_name /\ e.target = deps[1])
            IN <<hit[1].edge_type, " ">> \o NodeOf(ns, deps[1]).class_info.name

ClassItems(ns, es, out, names, changed_classes, level) ==
    LET known == SelectSeq(names, LAMBDA x : HasNode(ns, x)) IN
    [i \in DOMAIN known |->
        ImpactedItem(NodeOf(ns, known[i]).class_info.name, "class", level,
                     IF level = "transitive" THEN <<"Transitively depends on changed classes">>
                     ELSE _build_reason(ns, es, out, known[i], changed_classes, level),
                     NodeOf(ns, known[i]).class_info.file_path)]

FlowClasses(flow) == { flow.steps[i].class_name : i \in DOMAIN flow.steps }

FlowItems(fls, sets, changed_classes, all_impacted, ord) ==
    LET hit == SelectSeq(fls, LAMBDA f : FlowClasses(f) \cap all_impacted # {})
        Level(f) == IF FlowClasses(f) \cap changed_classes # {} THEN "direct"
                    ELSE IF FlowClasses(f) \cap sets.direct # {} THEN "direct"
                    ELSE IF FlowClasses(f) \cap sets.indirect # {} THEN "indirect"
                    ELSE "transitive"
    IN [i \in DOMAIN hit |->
          ImpactedItem(hit[i].name, "flow", Level(hit[i]),
                       <<"Flow passes through: ">>
                          \o Flatten(ListOf(FlowClasses(hit[i]) \cap all_impacted, ord)),
                       <<"flows/">> \o Slug(hit[i]) \o <<".md">>)]

EndpointItems(fls, all_impacted) ==
    LET OfFlow(f) ==
            LET ep_steps == SelectSeq(f.steps, LAMBDA st : st.role = "endpoint") IN
            IF FlowClasses(f) \cap all_impacted = {} THEN <<>>
            ELSE [i \in DOMAIN ep_steps |->
                    ImpactedItem(ep_steps[i].class_name, "endpoint", "indirect",
                                 <<"Endpoint for flow: ">> \o f.name \o <<" (">>
                                    \o f.entry_point \o <<")">>,
                                 ep_steps[i].file_path)]
    IN Flatten([i \in DOMAIN fls |-> OfFlow(fls[i])])

\* "seen" loop: the first item of every name is kept
Dedupe(items) ==
    LET keep == SelectSeq([i \in DOMAIN items |-> i],
                    LAMBDA i : \A j \in 1..(i - 1) : items[j].name # items[i].name)
    IN [k \in DOMAIN keep |-> items[keep[k]]]

\* kb_outputs is a dict kb_file -> source paths, as a sequence of pairs
KbDocItems(kb_outputs, changed_files, flow_items) ==
    LET changed_file_strs == { Normalize(Resolve(changed_files[i])) : i \in DOMAIN changed_files }
        stale == SelectSeq(kb_outputs, LAMBDA kv :
                    \E j \in DOMAIN kv.source_files :
                        Normalize(kv.source_files[j]) \in changed_file_strs)
        by_source == [i \in DOMAIN stale |->
                        ImpactedItem(stale[i].kb_file, "kb_doc", "direct",
                                     <<"Source files changed">>, stale[i].kb_file)]
        by_flow == IF flow_items = <<>> THEN <<>>
                   ELSE << ImpactedItem(<<"SUMMARY.md">>, "kb_doc", "direct",
                              <<"Flows changed - summary may need update">>, <<"SUMMARY.md">>) >>
                        \o [i \in DOMAIN flow_items |->
                              ImpactedItem(flow_items[i].file_path, "kb_doc",
                                  flow_items[i].impact_level,
                                  <<"Flow '">> \o flow_items[i].name \o <<"' affected">>,
                                  flow_items[i].file_path)]
    IN by_source \o by_flow

TestItems(ns, changed_classes, all_impacted, ord) ==
    LET names == SelectSeq(ListOf(all_impacted \cup changed_classes, ord),
                           LAMBDA x : HasNode(ns, x))
        OfClass(cls_name) ==
            LET short_name == NodeOf(ns, cls_name).class_info.name
                tests == SelectSeq(ns, LAMBDA t :
                            /\ t.layer = "Test"
                            /\ Contains(t.class_info.name, short_name)
                            /\ \/ Contains(t.class_info.name, <<"Test">>)
                               \/ Contains(t.class_info.name, <<"Spec">>))
            IN [i \in DOMAIN tests |->
                  ImpactedItem(tests[i].class_info.name, "test",
                               IF cls_name \in changed_classes THEN "direct" ELSE "indirect",
                               <<"Tests class: ">> \o short_name,
                               tests[i].class_info.file_path)]
    IN Flatten([i \in DOMAIN names |-> OfClass(names[i])])

\* ImpactReport.total_impact_count
total_impact_count(report) ==
    Len(report.affected_classes) + Len(report.affected_flows)
      + Len(report.affected_kb_docs) + Len(report.affected_tests)
      + Len(report.affected_endpoints)

\* the tiers read off the total count instead of the flow count
RiskByTotalImpact(report) ==
    IF total_impact_count(report) >= 5 THEN "critical"
    ELSE IF total_impact_count(report) >= 3 THEN "high"
    ELSE IF total_impact_count(report) >= 1 THEN "medium"
    ELSE "low"

\* ImpactReport.risk_level
risk_level(report) ==
    LET flow_count == Len(report.affected_flows) IN
    IF flow_count >= 5 THEN "critical"
    ELSE IF flow_count >= 3 THEN "high"
    ELSE IF flow_count >= 1 THEN "medium"
    ELSE "low"

EmptySets == [direct |-> {}, indirect |-> {}, transitive |-> {}]

\* ord lists the node names: the order in which Python iterates a set of them
analyze_impact(ns, es, inc, out, fls, kb_outputs, changed_files, max_depth, ord) ==
    LET changed_classes == ChangedClasses(ns, changed_files)
        sets == ImpactSets(ns, inc, out, changed_classes, max_depth, EmptySets,
                           SelectSeq(ord, LAMBDA x : x \in changed_classes))
        InOrder(S) == SelectSeq(ord, LAMBDA x : x \in S)
        all_impacted == changed_classes \cup sets.direct \cup sets.indirect
                          \cup sets.transitive
        flow_items == FlowItems(fls, sets, changed_classes, all_impacted, ord)
        empty == [changed_files |-> changed_files, affected_classes |-> <<>>,
                  affected_flows |-> <<>>, affected_kb_docs |-> <<>>,
                  affected_tests |-> <<>>, affected_endpoints |-> <<>>]
    IN IF changed_classes = {}
       THEN [changed_classes |-> {}, sets |-> EmptySets, report |-> empty]
       ELSE [changed_classes |-> changed_classes, sets |-> sets,
             report |->
               [changed_files |-> changed_files,
                affected_classes |->
                    ClassItems(ns, es, out, InOrder(sets.direct), changed_classes, "direct")
                    \o ClassItems(ns, es, out, InOrder(sets.indirect), changed_classes, "indirect")
                    \o ClassItems(ns, es, out, InOrder(sets.transitive), changed_classes,
                                  "transitive"),
                affected_flows |-> flow_items,
                affected_endpoints |-> Dedupe(EndpointItems(fls, all_impacted)),
                affected_kb_docs |-> Dedupe(KbDocItems(kb_outputs, changed_files, flow_items)),
                affected_tests |-> Dedupe(TestItems(ns, changed_classes, all_impacted, ord))]]

\* StateTracker.mark_kb_output on a dict kept as a sequence of pairs
mark_kb_output(kb_outputs, kb_file, source_files) ==
    IF \E i \in DOMAIN kb_outputs : kb_outputs[i].kb_file = kb_file
    THEN [i \in DOMAIN kb_outputs |->
            IF kb_outputs[i].kb_file = kb_file
            THEN [kb_file |-> kb_file, source_files |-> source_files] ELSE kb_outputs[i]]
    ELSE Append(kb_outputs, [kb_file |-> kb_file, source_files |-> source_files])

\* the provenance map a scan records: SUMMARY.md, then one entry per flow
RECURSIVE MarkFlows(_, _)
MarkFlows(kb_outputs, fls) ==
    IF fls = <<>> THEN kb_outputs
    ELSE LET steps == SelectSeq(Head(fls).steps, LAMBDA st : st.file_path # <<>>) IN
         MarkFlows(mark_kb_output(kb_outputs, <<"flows/">> \o Slug(Head(fls)) \o <<".md">>,
                                  [i \in DOMAIN steps |-> steps[i].file_path]),
                   Tail(fls))

RecordedKbOutputs(cs_files, fls) ==
    MarkFlows(mark_kb_output(<<>>, <<"SUMMARY.md">>, cs_files), fls)

\* the changed-file arguments tried: files of the parsed classes, a relative
\* path and a path no class is declared in
FilePool ==
    [i \in DOMAIN ClassPool |-> ClassPool[i].file_path]
    \o << <<"Order", ".cs">>, SrcPath("Core", <<"Missing">>) >>

ChangedFileLists ==
    LET present == { all_classes[i].file_path : i \in DOMAIN all_classes }
                     \cup { FilePool[i] : i \in (Len(ClassPool) + 1)..Len(FilePool) }
        first == { i \in DOMAIN FilePool : \A j \in 1..(i - 1) : FilePool[j] # FilePool[i] }
    IN { SelectSeq([i \in DOMAIN FilePool |-> IF i \in first THEN FilePool[i] ELSE <<>>],
                   LAMBDA f : f \in S) :
           S \in { T \in SUBSET present : Cardinality(T) <= MaxChanged } }

CsFiles ==
    LET first == { i \in DOMAIN all_classes :
                     \A j \in 1..(i - 1) : all_classes[j].file_path # all_classes[i].file_path }
        picked == SelectSeq([i \in DOMAIN all_classes |-> i], LAMBDA i : i \in first)
    IN [k \in DOMAIN picked |-> all_classes[picked[k]].file_path]

AnalyzeImpact ==
    /\ pc = "ready"
    /\ \E changed_files \in ChangedFileLists, max_depth \in 0..MaxDepthArg,
          ord \in Orderings(NodeKeys(nodes)),
          kb_outputs \in { <<>>, RecordedKbOutputs(CsFiles, flows) } :
         result' = [op |-> "analyze_impact", max_depth |-> max_depth]
                   @@ analyze_impact(nodes, edges, incoming, outgoing, flows, kb_outputs,
                                     changed_files, max_depth, ord)
    /\ pc' = "done"
    /\ UNCHANGED <<all_classes, nodes, edges, interface_map, incoming, outgoing,
                   short_name_index, flows, idx, tvars>>

-----------------------------------------------------------------------------
(* State models: KBState, FileState and their JSON form *)

\* A JSON value that is an object or an array carries its kind; a scalar is
\* the bare value.
Obj(f) == [t |-> "obj", v |-> f]
Arr(q) == [t |-> "arr", v |-> q]

\* dict.get(key, default) on a parsed JSON object
JsonGet(data, key, default) == IF key \in DOMAIN data.v THEN data.v[key] ELSE default

FileStateKeys == {"path", "sha256", "last_scanned", "size_bytes"}

FileState(path, sha256, last_scanned, size_bytes) ==
    [path |-> path, sha256 |-> sha256, last_scanned |-> last_scanned,
     size_bytes |-> size_bytes]

\* KBState(...): the empty string of a timestamp is 0
KBState(last_full_scan, last_update) ==
    [version |-> "0.1.0", last_full_scan |-> last_full_scan, last_update |-> last_update,
     files |-> <<>>, kb_outputs |-> Obj(<<>>)]

\* KBState.to_dict
to_dict(state) ==
    Obj([k \in {"version", "last_full_scan", "last_update", "files", "kb_outputs"} |->
           CASE k = "version" -> state.version
             [] k = "last_full_scan" -> state.last_full_scan
             [] k = "last_update" -> state.last_update
             [] k = "files" ->
                  Obj([p \in DOMAIN state.files |->
                         Obj([f \in FileStateKeys |-> state.files[p][f]])])
             [] k = "kb_outputs" -> state.kb_outputs])

\* KBState.from_dict raises when data or its "files" is no object, or when an
\* entry is no object carrying exactly the fields of FileState
FromDictRaises(data) ==
    \/ data.t # "obj"
    \/ LET files == JsonGet(data, "files", Obj(<<>>)) IN
       \/ files.t # "obj"
       \/ \E p \in DOMAIN files.v :
             files.v[p].t # "obj" \/ DOMAIN files.v[p].v # FileStateKeys

from_dict(data) ==
    LET files == JsonGet(data, "files", Obj(<<>>)) IN
    [version |-> JsonGet(data, "version", "0.1.0"),
     last_full_scan |-> JsonGet(data, "last_full_scan", 0),
     last_update |-> JsonGet(data, "last_update", 0),
     files |-> [p \in DOMAIN files.v |->
                  FileState(files.v[p].v["path"], files.v[p].v["sha256"],
                            files.v[p].v["last_scanned"], files.v[p].v["size_bytes"])],
     kb_outputs |-> JsonGet(data, "kb_outputs", Obj(<<>>))]

-----------------------------------------------------------------------------
(* Files on disk *)

\* source files: a path holds a sequence of bytes; PathOrder lists the paths
\* in sorted order
PathOrder == << "a.cs", "b.cs" >>
Paths == { PathOrder[i] : i \in DOMAIN PathOrder }
Contents == { <<0>>, <<1>> }

\* compute_file_hash cut down to the length of the content
HashOfLength(content) == Len(content)

\* compute_file_hash: the content streamed through the digest; on the
\* contents of the model no two digests collide
RECURSIVE compute_file_hash(_)
compute_file_hash(content) ==
    IF content = <<>> THEN 0
    ELSE compute_file_hash(SubSeq(content, 1, Len(content) - 1)) * 3
         + content[Len(content)] + 1

\* .kb-state.json: absent, or a text of which `written` of `total` write
\* calls have reached the file; doc is the JSON value the whole text encodes
\* ([t |-> "garbage"] when the text is no JSON), by is who wrote it
Missing == [kind |-> "missing", doc |-> Arr(<<>>), written |-> 0, total |-> 0,
            by |-> "env"]
TextFile(doc, written, total, by) ==
    [kind |-> "text", doc |-> doc, written |-> written, total |-> total, by |-> by]

Garbage == [t |-> "garbage", v |-> <<>>]

\* json.load succeeds on a complete text that encodes a JSON value
JsonLoads(file) == file.written = file.total /\ file.doc.t # "garbage"

\* StateTracker.load_state: <<>> is None, <<state>> a loaded state
load_state(file) ==
    IF file.kind = "missing" THEN <<>>
    ELSE IF ~JsonLoads(file) THEN <<>>
    ELSE IF FromDictRaises(file.doc) THEN <<>>
    ELSE << from_dict(file.doc) >>

\* the paths of S in sorted order
SortedPaths(S) == SelectSeq(PathOrder, LAMBDA p : p \in S)

\* discover_cs_files: the sorted paths present
discover_cs_files(dsk) == SortedPaths(DOMAIN dsk)

\* ChangeSet
ChangeSet(added, modified, deleted) ==
    [added |-> added, modified |-> modified, deleted |-> deleted]

\* ChangeSet.has_changes without the deleted list
HasAddedOrModified(changes) == changes.added # <<>> \/ changes.modified # <<>>

has_changes(changes) ==
    changes.added # <<>> \/ changes.modified # <<>> \/ changes.deleted # <<>>

\* compute_changes that never looks for deleted files
ComputeChangesNoDeleted(dsk, source_files, state) ==
    ChangeSet(SelectSeq(source_files, LAMBDA f : f \notin DOMAIN state.files),
              SelectSeq(source_files, LAMBDA f :
                  /\ f \in DOMAIN state.files
                  /\ compute_file_hash(dsk[f]) # state.files[f].sha256),
              <<>>)

\* StateTracker.compute_changes; state.files.keys() is listed in sorted order
compute_changes(dsk, source_files, state) ==
    ChangeSet(SelectSeq(source_files, LAMBDA f : f \notin DOMAIN state.files),
              SelectSeq(source_files, LAMBDA f :
                  /\ f \in DOMAIN state.files
                  /\ compute_file_hash(dsk[f]) # state.files[f].sha256),
              SelectSeq(SortedPaths(DOMAIN state.files),
                        LAMBDA p : p \notin Range(source_files)))

\* StateTracker.update_file_states
RECURSIVE update_file_states(_, _, _, _)
update_file_states(state, dsk, files, now) ==
    IF files = <<>> THEN state
    ELSE update_file_states(
             [state EXCEPT !.files =
                 Put(state.files, Head(files),
                     FileState(Head(files), compute_file_hash(dsk[Head(files)]), now,
                               Len(dsk[Head(files)])))],
             dsk, Tail(files), now)

-----------------------------------------------------------------------------
(* Pipeline: scan, update and refresh runs over the state file *)

\* run: the command in progress, its position and locals.  start_file,
\* save_called, save_failed and full_scan record what the run has done;
\* recorded is the disk as update_file_states hashed it for the state the
\* state file now holds completely (<<>> when the file holds no such state)
Run(cmd, at, now, start_file, state, changes, mem, outcome, save_called, save_failed, full_scan, recorded) ==
    [cmd |-> cmd, pc |-> at, now |-> now, start_file |-> start_file, state |-> state,
     changes |-> changes, mem |-> mem, outcome |-> outcome,
     save_called |-> save_called, save_failed |-> save_failed,
     full_scan |-> full_scan, recorded |-> recorded]

NoChanges == ChangeSet(<<>>, <<>>, <<>>)

IdleRun == Run("idle", "idle", 0, Missing, <<>>, NoChanges, KBState(0, 0), "none",
               FALSE, FALSE, FALSE, <<>>)

\* a command starts: the clock advances and the locals are fresh
Started(cmd, at) ==
    Run(cmd, at, run.now + 1, state_file, <<>>, NoChanges, KBState(0, 0), "none",
        FALSE, FALSE, FALSE, run.recorded)

\* the command returns (outcome "ok") or its exception reaches the CLI
\* handler, which exits with status 1 (outcome "error")
Finished(outcome) == [run EXCEPT !.pc = "exited", !.outcome = outcome]

\* state files an editor or another tool can leave behind: no JSON, a JSON
\* list, an object without any key, an entry without its fields, kb_outputs
\* of the wrong type
BadDocs ==
    { Garbage, Arr(<<>>), Obj(<<>>),
      Obj([k \in {"files"} |-> Obj([p \in {"a.cs"} |-> Obj([f \in {"path"} |-> "a.cs"])])]),
      Obj([k \in {"kb_outputs"} |-> Arr(<< "SUMMARY.md" >>)]) }

\* the environment creates or alters a source file between two runs
WriteFile ==
    /\ run.pc = "idle"
    /\ \E p \in Paths, c \in Contents :
         /\ Get(disk, p, <<>>) # c
         /\ disk' = Put(disk, p, c)
    /\ UNCHANGED <<gvars, state_file, run>>

\* the environment deletes a source file between two runs
DeleteFile ==
    /\ run.pc = "idle"
    /\ \E p \in DOMAIN disk : disk' = [q \in DOMAIN disk \ {p} |-> disk[q]]
    /\ UNCHANGED <<gvars, state_file, run>>

\* the environment replaces the state file, or rewrites it under another
\* schema version
TamperStateFile ==
    /\ run.pc = "idle"
    /\ \/ \E d \in BadDocs : state_file' = TextFile(d, 1, 1, "env")
       \/ /\ state_file.kind = "text" /\ state_file.doc.t = "obj"
          /\ "version" \in DOMAIN state_file.doc.v
          /\ state_file.doc.v["version"] = "0.1.0"
          /\ state_file' = [state_file EXCEPT !.doc.v["version"] = "9.9.9", !.by = "env"]
    /\ run' = [run EXCEPT !.recorded = <<>>]
    /\ UNCHANGED <<gvars, disk>>

\* cli scan -> run_full_scan
StartScan ==
    /\ run.pc = "idle" /\ run.now < MaxRuns
    /\ run' = Started("scan", "scan")
    /\ UNCHANGED <<gvars, disk, state_file>>

\* cli update -> run_incremental_update
StartUpdate ==
    /\ run.pc = "idle" /\ run.now < MaxRuns
    /\ run' = Started("update", "load")
    /\ UNCHANGED <<gvars, disk, state_file>>

\* cli refresh -> run_refresh: the state file is unlinked, then a full scan
StartRefresh ==
    /\ run.pc = "idle" /\ run.now < MaxRuns
    /\ state_file' = Missing
    /\ run' = [Started("refresh", "scan") EXCEPT !.recorded = <<>>]
    /\ UNCHANGED <<gvars, disk>>

\* the state a full scan hands to save_state
FullScanState(dsk, now) ==
    LET cs_files == discover_cs_files(dsk)
        state == update_file_states(KBState(now, 0), dsk, cs_files, now)
    IN [state EXCEPT !.kb_outputs = Obj(RecordedKbOutputs(cs_files, flows))]

\* run_full_scan up to the call of save_state: parse, build, generate, record
RunFullScan ==
    /\ run.pc = "scan"
    /\ \E solution_found \in BOOLEAN :
         run' = IF ~solution_found
                THEN [Finished("error") EXCEPT !.full_scan = TRUE]
                ELSE [run EXCEPT !.pc = "save_open", !.full_scan = TRUE,
                                 !.mem = FullScanState(disk, run.now)]
    /\ UNCHANGED <<gvars, disk, state_file>>

\* run_incremental_update: load_state, and the fall back to a full scan
LoadState ==
    /\ run.pc = "load"
    /\ LET state == load_state(state_file) IN
       run' = IF state = <<>> THEN [run EXCEPT !.pc = "scan"]
              ELSE [run EXCEPT !.pc = "compute", !.state = state]
    /\ UNCHANGED <<gvars, disk, state_file>>

\* run_incremental_update: compute_changes and the early return
ComputeChanges ==
    /\ run.pc = "compute"
    /\ LET changes == compute_changes(disk, discover_cs_files(disk), run.state[1]) IN
       run' = IF ~has_changes(changes)
              THEN [Finished("ok") EXCEPT !.changes = changes]
              ELSE [run EXCEPT !.pc = "regen", !.changes = changes]
    /\ UNCHANGED <<gvars, disk, state_file>>

\* the state an incremental update hands to save_state
UpdateState(dsk, state, now) ==
    LET cs_files == discover_cs_files(dsk)
        new_state == update_file_states(KBState(state.last_full_scan, now), dsk,
                                        cs_files, now)
    IN [new_state EXCEPT !.kb_outputs = Obj(RecordedKbOutputs(cs_files, flows))]

\* run_incremental_update after the changes are known: parse, build, analyse
\* the impact (which iterates kb_outputs once a changed class is found),
\* regenerate, record
Regenerate ==
    /\ run.pc = "regen"
    /\ \E solution_found \in BOOLEAN, class_changed \in BOOLEAN :
         run' = IF \/ ~solution_found
                   \/ /\ class_changed
                      /\ run.state[1].kb_outputs.t # "obj"
                      /\ run.state[1].kb_outputs.v # <<>>
                THEN Finished("error")
                ELSE [run EXCEPT !.pc = "save_open",
                                 !.mem = UpdateState(disk, run.state[1], run.now)]
    /\ UNCHANGED <<gvars, disk, state_file>>

\* save_state: mkdir, the timestamp, and open(path, "w"), which truncates the
\* file; an OSError is logged and the caller goes on
SaveOpen ==
    /\ run.pc = "save_open"
    /\ \E io_ok \in BOOLEAN :
         IF io_ok
         THEN /\ state_file' = TextFile(to_dict([run.mem EXCEPT !.last_update = run.now]),
                                        0, SaveChunks, "tool")
              /\ run' = [run EXCEPT !.pc = "save_write", !.save_called = TRUE,
                                    !.mem.last_update = run.now, !.recorded = <<>>]
         ELSE /\ state_file' = state_file
              /\ run' = [run EXCEPT !.pc = "finish", !.save_called = TRUE,
                                    !.save_failed = TRUE]
    /\ UNCHANGED <<gvars, disk>>

\* save_state: one write of json.dump reaches the file, or fails and is
\* logged; after the last write the file is closed
SaveWrite ==
    /\ run.pc = "save_write"
    /\ \E io_ok \in BOOLEAN :
         IF io_ok
         THEN /\ state_file' = [state_file EXCEPT !.written = @ + 1]
              /\ run' = IF state_file.written + 1 = state_file.total
                        THEN [run EXCEPT !.pc = "finish", !.recorded = << disk >>]
                        ELSE run
         ELSE /\ state_file' = state_file
              /\ run' = [run EXCEPT !.pc = "finish", !.save_failed = TRUE]
    /\ UNCHANGED <<gvars, disk>>

\* the run logs its completion and returns kb_path
Complete ==
    /\ run.pc = "finish"
    /\ run' = Finished("ok")
    /\ UNCHANGED <<gvars, disk, state_file>>

\* the process is interrupted or killed in the middle of a run
Interrupt ==
    /\ run.pc \notin {"idle", "exited"}
    /\ run' = Finished("killed")
    /\ UNCHANGED <<gvars, disk, state_file>>

\* the process has exited: its locals are gone
Exit ==
    /\ run.pc = "exited"
    /\ run' = [IdleRun EXCEPT !.now = run.now, !.recorded = run.recorded]
    /\ UNCHANGED <<gvars, disk, state_file>>

-----------------------------------------------------------------------------
(* Specification of the graph builder and the analyses run on its graph *)

\* the class list is a selection from the pool, in the pool's order
Increasing(q) == \A i, j \in DOMAIN q : i < j => q[i] < q[j]

InitGraph ==
    /\ all_classes \in { [i \in DOMAIN q |-> ClassPool[q[i]]] :
                           q \in { r \in SeqsUpTo(DOMAIN ClassPool, MaxClasses) : Increasing(r) } }
    /\ nodes = <<>> /\ edges = <<>>
    /\ interface_map = <<>> /\ incoming = <<>> /\ outgoing = <<>>
    /\ short_name_index = <<>>
    /\ flows = <<>>
    /\ pc = "step1" /\ idx = 1
    /\ result = [op |-> "none"]

\* no run of the pipeline takes place while a graph is built and analysed
Init ==
    /\ InitGraph
    /\ disk = <<>> /\ state_file = Missing /\ run = IdleRun

Next ==
    \/ Step1AddNode \/ Step2InterfaceMap \/ Step3AddEdges \/ Step4Handles \/ Step5Sends
    \/ StepDone \/ Rebuild \/ AnalyzeFlows
    \/ GetAllUpstream \/ GetAllDownstream \/ AnalyzeImpact

Spec == Init /\ [][Next]_vars

-----------------------------------------------------------------------------
(* Specification of name resolution: classes registered in any order, a class
   possibly more than once, then resolved *)

InitResolve ==
    /\ all_classes \in { [i \in DOMAIN q |-> RequestPool[q[i]]] :
                           q \in SeqsUpTo(DOMAIN RequestPool, MaxClasses) }
    /\ nodes = <<>> /\ edges = <<>>
    /\ interface_map = <<>> /\ incoming = <<>> /\ outgoing = <<>>
    /\ short_name_index = <<>>
    /\ flows = <<>>
    /\ pc = "step1" /\ idx = 1
    /\ result = [op |-> "none"]
    /\ disk = <<>> /\ state_file = Missing /\ run = IdleRun

NextResolve ==
    \/ Step1AddNode \/ Step2InterfaceMap \/ Step3AddEdges \/ Step4Handles \/ Step5Sends
    \/ StepDone \/ ResolveName \/ AnalyzeFlows

SpecResolve == InitResolve /\ [][NextResolve]_vars

-----------------------------------------------------------------------------
(* Specification of a traversal followed pass by pass on a graph built from
   ClassPool. A call that has started runs on: nothing else of the program
   runs meanwhile, so each pass and the return are taken when enabled. *)

NextTraversal ==
    \/ Step1AddNode \/ Step2InterfaceMap \/ Step3AddEdges \/ Step4Handles \/ Step5Sends
    \/ StepDone \/ BfsStart \/ BfsLoop \/ BfsReturn \/ ResolveName

SpecTraversal ==
    Init /\ [][NextTraversal]_vars /\ WF_vars(BfsLoop) /\ WF_vars(BfsReturn)

-----------------------------------------------------------------------------
(* Specification of flow analysis: a graph built from classes of FlowPool in
   their listed order, then analysed *)

InitFlows ==
    /\ all_classes \in { [i \in DOMAIN q |-> FlowPool[q[i]]] :
                           q \in { r \in SeqsUpTo(DOMAIN FlowPool, MaxFlowClasses) :
                                     Increasing(r) } }
    /\ nodes = <<>> /\ edges = <<>>
    /\ interface_map = <<>> /\ incoming = <<>> /\ outgoing = <<>>
    /\ short_name_index = <<>>
    /\ flows = <<>>
    /\ pc = "step1" /\ idx = 1
    /\ result = [op |-> "none"]
    /\ disk = <<>> /\ state_file = Missing /\ run = IdleRun

NextFlows ==
    \/ Step1AddNode \/ Step2InterfaceMap \/ Step3AddEdges \/ Step4Handles \/ Step5Sends
    \/ StepDone \/ AnalyzeFlows

SpecFlows == InitFlows /\ [][NextFlows]_vars

-----------------------------------------------------------------------------
(* Specification of the pipeline runs over the source files and the state file *)

\* an empty project directory without a state file; no graph is held
InitTracker ==
    /\ all_classes = <<>> /\ nodes = <<>> /\ edges = <<>>
    /\ interface_map = <<>> /\ incoming = <<>> /\ outgoing = <<>>
    /\ short_name_index = <<>>
    /\ flows = <<>>
    /\ pc = "off" /\ idx = 1
    /\ result = [op |-> "none"]
    /\ disk = <<>> /\ state_file = Missing /\ run = IdleRun

NextTracker ==
    \/ WriteFile \/ DeleteFile \/ TamperStateFile
    \/ StartScan \/ StartUpdate \/ StartRefresh
    \/ RunFullScan \/ LoadState \/ ComputeChanges \/ Regenerate
    \/ SaveOpen \/ SaveWrite \/ Complete \/ Interrupt \/ Exit

SpecTracker == InitTracker /\ [][NextTracker]_vars

-----------------------------------------------------------------------------
(* Specification of the functions read off one value: the risk level of a
   report and the role of a class *)

\* a list of n impacted items of one type
Items(item_type, n) ==
    [i \in 1..n |-> ImpactedItem(<<"item">>, item_type, "direct", <<>>, <<>>)]

\* ImpactReport with lists of the given lengths
Report(classes, fls, kb_docs, tests, endpoints) ==
    [changed_files |-> << SrcPath("Core", <<"Order">>) >>,
     affected_classes |-> Items("class", classes),
     affected_flows |-> Items("flow", fls),
     affected_kb_docs |-> Items("kb_doc", kb_docs),
     affected_tests |-> Items("test", tests),
     affected_endpoints |-> Items("endpoint", endpoints)]

\* the classes handed to the role classifier: every combination of a name,
\* an interface list, a base-class list, a kind and a property list
RoleNames ==
    { <<"Order">>, <<"Order", "Handler">>, <<"Create", "Order", "Command">>,
      <<"Get", "Order", "Query">>, <<"Order", "Created", "Event">>, <<"Order", "Spec">>,
      <<"Order", "Dto">>, <<"Order", "Repository">> }

RoleInterfaces ==
    { <<>>,
      << <<"I", "Notification", "Handler", "<", "Order", "Created", ">">> >>,
      << <<"I", "Request", "Handler", "<", "Create", "Order", "Command", ">">> >>,
      << <<"I", "AggregateRoot">> >>,
      << <<"I", "EntityTypeConfiguration", "<", "Order", ">">> >>,
      << <<"I", "Repository", "<", "Order", ">">> >>,
      << <<"I", "Request">> >> }

RoleBases ==
    { <<>>, << <<"Endpoint", "<", "Create", "Order", "Request", ">">> >>,
      << <<"ValueObject">> >>, << <<"Specification", "<", "Order", ">">> >> }

RoleKinds == {"class", "record", "interface"}

RoleProperties == { <<>>, << [name |-> <<"Id">>, type_name |-> <<"int">>] >> }

RoleInputs ==
    { [Class(name, NsCore, SrcPath("Core", name), kind, bases, ifaces, <<>>)
         EXCEPT !.properties = props] :
        name \in RoleNames, ifaces \in RoleInterfaces, bases \in RoleBases,
        kind \in RoleKinds, props \in RoleProperties }

\* report.risk_level read on a report
RiskLevel ==
    /\ pc = "pure"
    /\ \E fls \in 0..MaxFlows, classes, kb_docs, tests, endpoints \in 0..MaxOther :
         LET report == Report(classes, fls, kb_docs, tests, endpoints) IN
         result' = [op |-> "risk_level", report |-> report, value |-> risk_level(report)]
    /\ pc' = "done"
    /\ UNCHANGED <<all_classes, nodes, edges, interface_map, incoming, outgoing,
                   short_name_index, flows, idx, tvars>>

\* the owning project names tried: none, one without a layer keyword and two
\* with one
RoleProjects == { <<>>, <<"Shop">>, <<"Shop", ".", "Core">>, <<"Shop", ".", "Web">> }

\* _classify_role and _classify_layer called on a class, as step 1 calls them
ClassifyRole ==
    /\ pc = "pure"
    /\ \E c \in RoleInputs, project \in RoleProjects :
         result' = [op |-> "classify_role", cls |-> c, project |-> project,
                    value |-> _classify_role(c), layer |-> _classify_layer(project, c)]
    /\ pc' = "done"
    /\ UNCHANGED <<all_classes, nodes, edges, interface_map, incoming, outgoing,
                   short_name_index, flows, idx, tvars>>

InitFunctions ==
    /\ all_classes = <<>> /\ nodes = <<>> /\ edges = <<>>
    /\ interface_map = <<>> /\ incoming = <<>> /\ outgoing = <<>>
    /\ short_name_index = <<>>
    /\ flows = <<>>
    /\ pc = "pure" /\ idx = 1
    /\ result = [op |-> "none"]
    /\ disk = <<>> /\ state_file = Missing /\ run = IdleRun

NextFunctions == RiskLevel \/ ClassifyRole

SpecFunctions == InitFunctions /\ [][NextFunctions]_vars

-----------------------------------------------------------------------------
(* Properties of the graph builder, the traversals and the impact analysis *)

SelfEdge(e) == e.source = e.target

\* a class that names its own short name among its references
RefersToOwnName(cls) ==
    \E i \in DOMAIN (CtorParams(cls) \o SelfNamed(cls.base_classes)
                       \o SelfNamed(cls.interfaces)) :
        _strip_generic((CtorParams(cls) \o SelfNamed(cls.base_classes)
                          \o SelfNamed(cls.interfaces))[i].type_name) = cls.name

RECURSIVE WithinHops(_, _)
WithinHops(x, k) ==
    IF k = 0 THEN {x}
    ELSE LET near == WithinHops(x, k - 1) IN
         near \cup { edges[i].source : i \in { j \in DOMAIN edges : edges[j].target \in near } }

\* C2: get_all_upstream(X, d) returns no node whose shortest incoming hop
\* distance to X exceeds d, and never X itself, on cyclic graphs too.
C2_UpstreamWithinDepth ==
    result.op = "get_all_upstream" =>
        /\ result.class_name \notin result.value
        /\ result.value \subseteq WithinHops(result.class_name, result.max_depth)

\* C2 witness: a call that returned nodes while a node lies farther than the
\* depth cap, X lying on a cycle.
C2_Witness ==
    /\ result.op = "get_all_upstream"
    /\ result.value # {}
    /\ ~(WithinHops(result.class_name, result.max_depth + 1)
           \subseteq WithinHops(result.class_name, result.max_depth))
    /\ \E i \in DOMAIN edges :
         /\ edges[i].source = result.class_name
         /\ edges[i].target \in result.value

\* C3: an upstream node that is neither changed nor directly impacted is
\* indirect exactly when one of its one-hop dependencies is in the direct
\* set, and transitive otherwise.
C3_IndirectIffDependsOnDirect ==
    result.op = "analyze_impact" =>
        \A u \in (result.sets.indirect \cup result.sets.transitive)
                   \ (result.changed_classes \cup result.sets.direct) :
            LET by_direct == IsIndirectByDirect(nodes, outgoing, u, result.changed_classes,
                                                result.sets.direct)
            IN /\ (u \in result.sets.indirect) <=> by_direct
               /\ (u \in result.sets.transitive) <=> ~by_direct

NoRepeatedName(items) ==
    \A i, j \in DOMAIN items : i # j => items[i].name # items[j].name

\* C4: in an impact report none of the five lists (classes, flows,
\* endpoints, KB docs, tests) holds two items of the same name.
C4_ListsDeduplicated ==
    result.op = "analyze_impact" =>
        /\ NoRepeatedName(result.report.affected_classes)
        /\ NoRepeatedName(result.report.affected_flows)
        /\ NoRepeatedName(result.report.affected_endpoints)
        /\ NoRepeatedName(result.report.affected_kb_docs)
        /\ NoRepeatedName(result.report.affected_tests)

EdgesOf(g) ==
    Range(g.edges)
    \cup UNION { Range(g.incoming[k]) : k \in DOMAIN g.incoming }
    \cup UNION { Range(g.outgoing[k]) : k \in DOMAIN g.outgoing }

\* C11: at every point of a build both endpoints of every edge, in the edge
\* list and in the adjacency indices, are keys of the node table of the same
\* graph; a build starts with no edge, so after a rebuild every edge joins
\* classes of the list the rebuild was given.
C11_EndpointsAreNodes ==
    /\ \A e \in EdgesOf(BuiltGraph) :
          e.source \in NodeKeys(nodes) /\ e.target \in NodeKeys(nodes)
    /\ pc \in {"step1", "step2"} => EdgesOf(BuiltGraph) = {}
    /\ NodeKeys(nodes) \subseteq { FullName(all_classes[i]) : i \in DOMAIN all_classes }

\* C11 witness: a second graph was built from a shorter class list; it has
\* edges, and an edge of the first graph is not among them.
C11_Witness ==
    /\ pc = "rebuilt" /\ result.op = "rebuild"
    /\ all_classes # result.classes
    /\ edges # <<>>
    /\ \E e \in Range(result.previous.edges) : e \notin Range(edges)

\* a list as a collection: every member with the number of its occurrences
BagOf(q) == [x \in Range(q) |-> Cardinality({ i \in DOMAIN q : q[i] = x })]

\* a table of lists, every list taken as a collection
BagsOf(table) == [k \in DOMAIN table |-> BagOf(table[k])]

\* C13: a second build from the same class list and project list gives the
\* same nodes, the same edges up to their order, and the same contents of
\* the short-name index, the interface map and the two adjacency indices.
C13_RebuildDeterministic ==
    (pc = "rebuilt" /\ all_classes = result.classes) =>
        /\ nodes = result.previous.nodes
        /\ BagOf(edges) = BagOf(result.previous.edges)
        /\ short_name_index = result.previous.short_name_index
        /\ BagsOf(interface_map) = BagsOf(result.previous.interface_map)
        /\ BagsOf(incoming) = BagsOf(result.previous.incoming)
        /\ BagsOf(outgoing) = BagsOf(result.previous.outgoing)

\* C13 witness: the second build of the same list has stored its edges in
\* another order than the first.
C13_Witness ==
    /\ pc = "rebuilt" /\ all_classes = result.classes
    /\ edges # <<>>
    /\ edges # result.previous.edges

\* the short name of the command or query a handler matches by its own name
ConventionName(handler_node) ==
    LET base == RemoveToken(handler_node.class_info.name, "Handler") IN
    IF InCqByName(nodes, base \o <<"Command">>) THEN base \o <<"Command">>
    ELSE IF InCqByName(nodes, base \o <<"Query">>) THEN base \o <<"Query">>
    ELSE <<>>

\* the short names a handler matches by the generic argument of an interface
GenericNames(handler_node) ==
    { _extract_generic_arg(handler_node.class_info.interfaces[i]) :
        i \in DOMAIN handler_node.class_info.interfaces } \ {<<>>}

HandlesCount(src, target) ==
    Cardinality({ i \in DOMAIN edges :
                    /\ edges[i].source = src /\ edges[i].target = target
                    /\ edges[i].edge_type = "handles" })

\* C14: once step 4 is over, a handler that matches a command or query both
\* by the naming convention and by the generic argument of one of its
\* interfaces has exactly one handles edge to it.
C14_OneHandlesEdge ==
    pc \in {"step5", "built", "rebuilt", "ready", "done"} =>
        \A i \in DOMAIN nodes :
            (/\ nodes[i].role = "handler"
             /\ ConventionName(nodes[i]) # <<>>
             /\ ConventionName(nodes[i]) \in GenericNames(nodes[i])) =>
                HandlesCount(NodeName(nodes[i]),
                             NodeName(cq_by_name(nodes, ConventionName(nodes[i])))) = 1

\* C14 witness: a built graph with a handler matched both ways and its one
\* handles edge.
C14_Witness ==
    /\ pc = "built"
    /\ \E i \in DOMAIN nodes :
         /\ nodes[i].role = "handler"
         /\ ConventionName(nodes[i]) # <<>>
         /\ ConventionName(nodes[i]) \in GenericNames(nodes[i])
         /\ HandlesCount(NodeName(nodes[i]),
                         NodeName(cq_by_name(nodes, ConventionName(nodes[i])))) = 1

\* the full names of the classes of the list whose short name is name
Registered(name) ==
    { FullName(all_classes[i]) : i \in { k \in DOMAIN all_classes : all_classes[k].name = name } }

\* C12: resolve_name(s) returns the full names of the registered classes
\* whose short name is s without its generic part, each once, whatever the
\* order of registration and however often a class was registered.
C12_ResolveNameExact ==
    result.op = "resolve_name" =>
        /\ Range(result.value) = Registered(_strip_generic(result.short_name))
        /\ Len(result.value) = Cardinality(Registered(_strip_generic(result.short_name)))

\* C12 witness: a generic reference resolved to two classes, one of them
\* registered twice.
C12_Witness ==
    /\ result.op = "resolve_name"
    /\ result.short_name # _strip_generic(result.short_name)
    /\ Len(result.value) = 2
    /\ \E i, j \in DOMAIN all_classes :
         i < j /\ all_classes[i] = all_classes[j] /\ FullName(all_classes[i]) \in Range(result.value)

RECURSIVE SumOver(_, _)
SumOver(q, i) == IF i > Len(q) THEN 0 ELSE q[i] + SumOver(q, i + 1)

\* the references of a kind that a class makes to the short name Request
RequestRefs(cls, edge_type) ==
    LET refs == CASE edge_type = "injects" -> CtorParams(cls)
                  [] edge_type = "inherits" -> SelfNamed(cls.base_classes)
                  [] edge_type = "implements" -> SelfNamed(cls.interfaces)
    IN Len(SelectSeq(refs, LAMBDA r : _strip_generic(r.type_name) = <<"Request">>))

\* the references of a kind made to Request by the descriptors of class src
RequestRefsOf(src, edge_type) ==
    SumOver([i \in DOMAIN all_classes |->
                IF FullName(all_classes[i]) = src
                THEN RequestRefs(all_classes[i], edge_type) ELSE 0], 1)

EdgeCount(src, target, edge_type) ==
    Cardinality({ i \in DOMAIN edges :
                    /\ edges[i].source = src /\ edges[i].target = target
                    /\ edges[i].edge_type = edge_type })

\* C15: with two classes named Request in two namespaces, resolve_name of
\* Request gives both, and every reference of a third class to Request
\* (constructor parameter, base type, interface) has put one edge to each of
\* the two, two edges per reference.
C15_FanOut ==
    (pc \in {"step4", "step5", "built", "done"} /\ Cardinality(Registered(<<"Request">>)) = 2) =>
        /\ \A ord \in Orderings(AmbiguousKeys(short_name_index)) :
              Range(resolve_name(short_name_index, <<"Request">>, ord))
                 = Registered(<<"Request">>)
        /\ \A src \in NodeKeys(nodes) \ Registered(<<"Request">>) :
              \A edge_type \in {"injects", "inherits", "implements"} :
                 \A target \in Registered(<<"Request">>) :
                    EdgeCount(src, target, edge_type) = RequestRefsOf(src, edge_type)

\* C15 witness: a graph built from the two Request classes and a class that
\* refers to Request three ways holds six edges from that class.
C15_Witness ==
    /\ pc = "built" /\ Cardinality(Registered(<<"Request">>)) = 2
    /\ \E src \in NodeKeys(nodes) \ Registered(<<"Request">>) :
         /\ \A edge_type \in {"injects", "inherits", "implements"} :
               RequestRefsOf(src, edge_type) = 1
         /\ Cardinality({ i \in DOMAIN edges : edges[i].source = src }) = 6

\* the classes the file named by a changed path declares
DeclaredIn(changed_file) ==
    { NodeName(nodes[i]) : i \in { k \in DOMAIN nodes :
          Normalize(nodes[k].class_info.file_path) = Normalize(Resolve(changed_file)) } }

\* an entity no other node depends on and that is a step of no flow
LeafEntity(x) ==
    /\ NodeOf(nodes, x).role = "entity"
    /\ \A i \in DOMAIN edges : edges[i].target # x
    /\ \A i \in DOMAIN flows : x \notin FlowClasses(flows[i])

\* C17: when the one changed file declares a single leaf entity class, the
\* report has risk level low and no affected flow and no affected endpoint.
C17_LeafEntityLowRisk ==
    result.op = "analyze_impact" =>
        \A x \in NodeKeys(nodes) :
            (/\ Len(result.report.changed_files) = 1
             /\ DeclaredIn(result.report.changed_files[1]) = {x}
             /\ LeafEntity(x)) =>
                /\ risk_level(result.report) = "low"
                /\ result.report.affected_flows = <<>>
                /\ result.report.affected_endpoints = <<>>

\* the tiers in rising order
RiskRank(level) ==
    CASE level = "low" -> 0 [] level = "medium" -> 1
      [] level = "high" -> 2 [] level = "critical" -> 3

\* the report with its first m affected flows only
WithFlows(report, m) ==
    [report EXCEPT !.affected_flows = SubSeq(report.affected_flows, 1, m)]

\* C18: the risk level of a report is low for 0 affected flows, medium for 1
\* or 2, high for 3 or 4 and critical for 5 or more, whatever the other lists
\* hold, and a report with fewer affected flows never has a higher level.
C18_RiskByFlowCount ==
    result.op = "risk_level" =>
        LET n == Len(result.report.affected_flows) IN
        /\ result.value = IF n = 0 THEN "low"
                          ELSE IF n \in 1..2 THEN "medium"
                          ELSE IF n \in 3..4 THEN "high"
                          ELSE "critical"
        /\ \A m \in 0..n :
              RiskRank(risk_level(WithFlows(result.report, m))) <= RiskRank(result.value)

\* C18 witness: a report with three affected flows and other lists that are
\* not empty is rated high.
C18_Witness ==
    /\ result.op = "risk_level"
    /\ Len(result.report.affected_flows) = 3
    /\ Len(result.report.affected_classes) = MaxOther
    /\ Len(result.report.affected_endpoints) = MaxOther
    /\ result.value = "high"

\* flow i is the flow of node k: it carries the node's short name and its
\* command / query step names the node
FlowOfNode(i, k) ==
    /\ flows[i].command_or_query = nodes[k].class_info.name
    /\ \E st \in DOMAIN flows[i].steps :
          /\ flows[i].steps[st].class_name = NodeName(nodes[k])
          /\ flows[i].steps[st].role = nodes[k].role
          /\ flows[i].steps[st].action = <<"CQRS ", nodes[k].role, " message">>

CommandOrQuery == { k \in DOMAIN nodes : nodes[k].role \in {"command", "query"} }

\* C19: once the flows are analysed, every node of role command or query has
\* exactly one flow, every flow is the flow of exactly one such node, and the
\* flow's command_or_query is the short name of its node.
C19_OneFlowPerCommandOrQuery ==
    pc = "ready" =>
        /\ Len(flows) = Cardinality(CommandOrQuery)
        /\ \A k \in CommandOrQuery :
              Cardinality({ i \in DOMAIN flows : FlowOfNode(i, k) }) = 1
        /\ \A i \in DOMAIN flows :
              Cardinality({ k \in CommandOrQuery : FlowOfNode(i, k) }) = 1

\* C19 witness: a graph with a command, a query and a node of another role
\* has two flows.
C19_Witness ==
    /\ pc = "ready" /\ Len(flows) = 2
    /\ \E k \in CommandOrQuery : nodes[k].role = "command"
    /\ \E k \in CommandOrQuery : nodes[k].role = "query"
    /\ \E k \in DOMAIN nodes : k \notin CommandOrQuery

\* the roles in the order of their tests, and the test of each role
RoleOrder ==
    << "endpoint", "command", "query", "handler", "repository", "entity", "config",
       "dto", "specification", "value_object", "domain_event", "event_handler",
       "interface", "other" >>

RoleMatches(role, c) ==
    CASE role = "endpoint" -> detect_endpoint(c)
      [] role = "command" -> detect_command(c)
      [] role = "query" -> detect_query(c)
      [] role = "handler" -> detect_handler(c)
      [] role = "repository" -> detect_repository(c)
      [] role = "entity" -> detect_aggregate_root(c)
      [] role = "config" -> detect_ef_configuration(c)
      [] role = "dto" -> detect_dto(c)
      [] role = "specification" -> detect_specification(c)
      [] role = "value_object" -> detect_value_object(c)
      [] role = "domain_event" -> detect_domain_event(c)
      [] role = "event_handler" -> detect_event_handler(c)
      [] role = "interface" -> c.class_kind = "interface"
      [] role = "other" -> TRUE

FirstMatch(c) ==
    RoleOrder[CHOOSE i \in DOMAIN RoleOrder :
                 /\ RoleMatches(RoleOrder[i], c)
                 /\ \A j \in 1..(i - 1) : ~RoleMatches(RoleOrder[j], c)]

\* a class named ...Handler that implements a notification-handler interface
NotificationHandlerByName(c) ==
    /\ IsSuffix(<<"Handler">>, c.name)
    /\ AnyHas(c.interfaces, <<"Notification", "Handler">>)

\* C20: the role of a class is that of the first test it passes in the order
\* endpoint, command, query, handler, repository, entity, config, dto,
\* specification, value object, domain event, event handler, interface kind,
\* other; so a class named ...Handler that implements a notification-handler
\* interface is never an event_handler, and is a handler unless it passes the
\* endpoint, command or query test.
C20_FirstMatchingRole ==
    result.op = "classify_role" =>
        /\ result.value = FirstMatch(result.cls)
        /\ NotificationHandlerByName(result.cls) =>
              /\ result.value # "event_handler"
              /\ (\A i \in 1..3 : ~RoleMatches(RoleOrder[i], result.cls))
                    => result.value = "handler"

\* C20 witness: a class named OrderHandler implementing
\* INotificationHandler<OrderCreated>, passing both the handler test and the
\* event-handler test, is classified handler.
C20_Witness ==
    /\ result.op = "classify_role"
    /\ NotificationHandlerByName(result.cls)
    /\ detect_handler(result.cls) /\ detect_event_handler(result.cls)
    /\ result.value = "handler"

CreateOrderCommand == <<"Create", "Order", "Command">>

\* the endpoint node takes a constructor parameter typed CreateOrderCommand
TakesCommand(ep_node) ==
    /\ ep_node.role = "endpoint"
    /\ \E i \in DOMAIN CtorParams(ep_node.class_info) :
          CtorParams(ep_node.class_info)[i].type_name = CreateOrderCommand

\* the command node CreateOrderCommand, the one command or query of that name
IsCreateOrderCommand(node) ==
    /\ node.role = "command" /\ node.class_info.name = CreateOrderCommand
    /\ \A k \in DOMAIN nodes :
          (nodes[k].role \in {"command", "query"}
             /\ nodes[k].class_info.name = CreateOrderCommand) => nodes[k] = node

\* a sends edge between the two nodes whose label contains the short name
SendsLabelled(ep_node, cq_node) ==
    \E i \in DOMAIN edges :
        /\ edges[i].source = NodeName(ep_node) /\ edges[i].target = NodeName(cq_node)
        /\ edges[i].edge_type = "sends"
        /\ Contains(edges[i].label, cq_node.class_info.name)

\* the flows of the node: those whose command / query step names it
FlowsFor(cq_node) ==
    { i \in DOMAIN flows :
        /\ flows[i].command_or_query = cq_node.class_info.name
        /\ \E k \in DOMAIN flows[i].steps :
              /\ flows[i].steps[k].class_name = NodeName(cq_node)
              /\ flows[i].steps[k].role = "command" }

\* C16: in a built graph an endpoint with a constructor parameter typed
\* CreateOrderCommand has a sends edge to the command node CreateOrderCommand
\* (the one command or query of that short name) whose label contains that
\* short name, and once the flows are analysed the command has a flow and the
\* entry point of its flow begins with POST.
C16_SendsAndPost ==
    pc \in {"built", "ready", "done"} =>
        \A e, c \in DOMAIN nodes :
            (TakesCommand(nodes[e]) /\ IsCreateOrderCommand(nodes[c])) =>
                /\ SendsLabelled(nodes[e], nodes[c])
                /\ pc = "ready" =>
                      /\ FlowsFor(nodes[c]) # {}
                      /\ \A i \in FlowsFor(nodes[c]) :
                            IsPrefix(<<"POST">>, flows[i].entry_point)

\* C16 witness: the flows are analysed for a graph in which a controller
\* without a generic base type takes the command; its edge and the POST flow
\* are there.
C16_Witness ==
    /\ pc = "ready"
    /\ \E e, c \in DOMAIN nodes :
         /\ TakesCommand(nodes[e]) /\ IsCreateOrderCommand(nodes[c])
         /\ \A i \in DOMAIN nodes[e].class_info.base_classes :
               _extract_generic_arg(nodes[e].class_info.base_classes[i]) = <<>>
         /\ SendsLabelled(nodes[e], nodes[c])
         /\ \E i \in FlowsFor(nodes[c]) : IsPrefix(<<"POST">>, flows[i].entry_point)

\* no node's file path passes the path test of step 1 against a changed file
NoNodeMatches(changed_files) ==
    \A k \in DOMAIN nodes, j \in DOMAIN changed_files :
        ~PathMatches(Normalize(nodes[k].class_info.file_path), Normalize(changed_files[j]))

EmptyReport(report) ==
    /\ report.affected_classes = <<>> /\ report.affected_flows = <<>>
    /\ report.affected_kb_docs = <<>> /\ report.affected_tests = <<>>
    /\ report.affected_endpoints = <<>>

\* C21: when no node's file path matches a changed file, analyze_impact
\* returns a report whose five lists are empty and whose risk level is low.
C21_NoMatchEmptyReport ==
    (result.op = "analyze_impact" /\ NoNodeMatches(result.report.changed_files)) =>
        /\ EmptyReport(result.report)
        /\ risk_level(result.report) = "low"

\* C21 witness: a graph with a flow, analysed for a changed file no class is
\* declared in, gives the empty report.
C21_Witness ==
    /\ result.op = "analyze_impact"
    /\ result.report.changed_files # <<>> /\ flows # <<>>
    /\ NoNodeMatches(result.report.changed_files)
    /\ EmptyReport(result.report)

\* the targets of the handles edges of a handler
HandlesTargets(handler_node) ==
    { edges[i].target : i \in { k \in DOMAIN edges :
          /\ edges[k].source = NodeName(handler_node)
          /\ edges[k].edge_type = "handles" } }

\* the commands and queries named by a generic argument of the handler
GenericCq(handler_node) ==
    { a \in GenericNames(handler_node) : InCqByName(nodes, a) }

\* C22 as stated: once step 4 is over, a handler with a convention match has
\* no handles edge but the one to the command or query the convention found.
C22_GenericOnlyWithoutConvention ==
    pc \in {"step5", "built", "ready", "done"} =>
        \A i \in DOMAIN nodes :
            (nodes[i].role = "handler" /\ ConventionName(nodes[i]) # <<>>) =>
                HandlesTargets(nodes[i])
                    = { NodeName(cq_by_name(nodes, ConventionName(nodes[i]))) }

\* C22 amended: once step 4 is over, a handler has exactly one handles edge to
\* every command or query named by the generic argument of one of its
\* interfaces, whether or not the convention matched, and its handles edges go
\* to these and to the convention match only.
C22_GenericAlsoApplied ==
    pc \in {"step5", "built", "ready", "done"} =>
        \A i \in DOMAIN nodes :
            nodes[i].role = "handler" =>
                /\ \A a \in GenericCq(nodes[i]) :
                      HandlesCount(NodeName(nodes[i]), NodeName(cq_by_name(nodes, a))) = 1
                /\ HandlesTargets(nodes[i])
                      = { NodeName(cq_by_name(nodes, a)) :
                            a \in GenericCq(nodes[i]) \cup ({ConventionName(nodes[i])} \ {<<>>}) }

\* C22 witness: a built graph where a handler with a convention match has a
\* handles edge to a second command or query, named by an interface.
C22_Witness ==
    /\ pc = "built"
    /\ \E i \in DOMAIN nodes :
         /\ nodes[i].role = "handler" /\ ConventionName(nodes[i]) # <<>>
         /\ \E a \in GenericCq(nodes[i]) :
               /\ a # ConventionName(nodes[i])
               /\ HandlesCount(NodeName(nodes[i]), NodeName(cq_by_name(nodes, a))) = 1

\* the handler matches the short name by convention or by a generic argument
HandlerMatches(handler_node, name) ==
    \/ \E suffix \in {"Command", "Query"} :
          name = RemoveToken(handler_node.class_info.name, "Handler") \o <<suffix>>
    \/ name \in GenericNames(handler_node)

\* the endpoint has a constructor parameter of that type
EndpointTakes(ep_node, name) ==
    \E i \in DOMAIN CtorParams(ep_node.class_info) :
        _strip_generic(CtorParams(ep_node.class_info)[i].type_name) = name

HasEdge(src, target, edge_type) ==
    \E i \in DOMAIN edges :
        /\ edges[i].source = src /\ edges[i].target = target
        /\ edges[i].edge_type = edge_type

\* C23: in a built graph, when two command or query nodes share a short
\* name, a handler matching the name has a handles edge to each of them and
\* an endpoint with a constructor parameter of that type has a sends edge to
\* each of them.
C23_FanOutToSameNamed ==
    pc \in {"built", "ready", "done"} =>
        \A c, d \in CommandOrQuery :
            (c # d /\ nodes[c].class_info.name = nodes[d].class_info.name) =>
                \A k \in DOMAIN nodes :
                    /\ (nodes[k].role = "handler"
                          /\ HandlerMatches(nodes[k], nodes[c].class_info.name))
                         => HasEdge(NodeName(nodes[k]), NodeName(nodes[c]), "handles")
                    /\ (nodes[k].role = "endpoint"
                          /\ EndpointTakes(nodes[k], nodes[c].class_info.name))
                         => HasEdge(NodeName(nodes[k]), NodeName(nodes[c]), "sends")

\* the entity or other-role nodes a repository parameter's generic argument
\* resolves to
AggregateCandidates(param) ==
    IF ~IsRepositoryParam(param) \/ _extract_generic_arg(param.type_name) = <<>> THEN {}
    ELSE { full \in Get(short_name_index, _extract_generic_arg(param.type_name), {}) :
             HasNode(nodes, full) /\ NodeOf(nodes, full).role \in {"entity", "other"} }

\* the handler of a flow: the node of its handler step, <<>> when it has none
HandlerOfFlow(flow) ==
    LET hs == SelectSeq(flow.steps, LAMBDA st : st.role = "handler") IN
    IF hs = <<>> THEN <<>> ELSE << NodeOf(nodes, hs[1].class_name) >>

\* C24: the aggregate of a flow is the short name of a node the first
\* repository parameter of the handler with an entity or other-role candidate
\* resolves to; it is unset when the flow has no handler or no parameter has
\* such a candidate.
C24_FirstAggregate ==
    pc = "ready" =>
        \A i \in DOMAIN flows :
            LET handler == HandlerOfFlow(flows[i])
                params == IF handler = <<>> THEN <<>> ELSE CtorParams(handler[1].class_info)
                hits == { k \in DOMAIN params : AggregateCandidates(params[k]) # {} }
            IN IF hits = {} THEN flows[i].aggregate = <<>>
               ELSE LET first == CHOOSE k \in hits : \A j \in hits : k <= j IN
                    flows[i].aggregate
                        \in { NodeOf(nodes, full).class_info.name :
                                 full \in AggregateCandidates(params[first]) }

LayerKeywords ==
    {"test", "spec", "web", "api", "host", "server", "infrastructure", "infra", "data",
     "persistence", "usecase", "application", "usecases", "core", "domain", "shared",
     "kernel"}

NoLayerKeyword(project_name) == ~ContainsAny(LowerSeq(project_name), LayerKeywords)

\* the layer the claim gives a role
LayerOfRole(role) ==
    CASE role = "endpoint" -> "Web"
      [] role \in {"handler", "command", "query"} -> "Application"
      [] role \in {"entity", "domain_event"} -> "Core"
      [] role \in {"repository", "config"} -> "Infrastructure"
      [] OTHER -> "Other"

\* the layer of the first pattern test the class passes
LayerOfPatterns(c) ==
    IF detect_endpoint(c) THEN "Web"
    ELSE IF detect_handler(c) \/ detect_command(c) \/ detect_query(c) THEN "Application"
    ELSE IF detect_aggregate_root(c) \/ detect_domain_event(c) THEN "Core"
    ELSE IF detect_repository(c) \/ detect_ef_configuration(c) THEN "Infrastructure"
    ELSE "Other"

\* C25 as stated: without a layer keyword in the project name, the layer is
\* the one the table gives the assigned role.
C25_LayerByRole ==
    (result.op = "classify_role" /\ NoLayerKeyword(result.project)) =>
        result.layer = LayerOfRole(result.value)

\* C25 amended: without a layer keyword in the project name, the layer is that
\* of the first pattern test passed (endpoint; handler, command or query;
\* aggregate root or domain event; repository or EF configuration; else
\* Other). It is the layer of the assigned role for the roles endpoint,
\* command, query, handler, entity, domain_event, event_handler, interface and
\* other; a node of role repository, config, dto, specification or
\* value_object is in Core when it passes the aggregate-root or domain-event
\* test and in the layer of its role otherwise.
C25_LayerByPatterns ==
    (result.op = "classify_role" /\ NoLayerKeyword(result.project)) =>
        /\ result.layer = LayerOfPatterns(result.cls)
        /\ result.layer =
              IF /\ result.value \in {"repository", "config", "dto", "specification",
                                      "value_object"}
                 /\ detect_aggregate_root(result.cls) \/ detect_domain_event(result.cls)
              THEN "Core" ELSE LayerOfRole(result.value)

\* C25 witness: a record named ...Event with a property, in a project without
\* a layer keyword, has role dto and layer Core.
C25_Witness ==
    /\ result.op = "classify_role" /\ NoLayerKeyword(result.project)
    /\ result.project # <<>>
    /\ result.value = "dto" /\ result.layer = "Core"
    /\ detect_domain_event(result.cls)

\* C26: a call of get_all_upstream or get_all_downstream that has started
\* returns, on every graph, cyclic ones included, and for every max_depth >= 0.
C26_TraversalTerminates == (pc = "bfs") ~> (pc = "done")

\* two nodes that depend on each other
MutualPair(x, y) ==
    /\ x # y
    /\ \E i \in DOMAIN edges : edges[i].source = x /\ edges[i].target = y
    /\ \E i \in DOMAIN edges : edges[i].source = y /\ edges[i].target = x

\* C26 witness: a traversal from a node on a cycle has returned and found the
\* other node of the cycle.
C26_Witness ==
    /\ pc = "done" /\ result.op \in {"get_all_upstream", "get_all_downstream"}
    /\ \E y \in result.value : MutualPair(result.class_name, y)

\* the three sets when the changed classes are processed in the order ord
SetsInOrder(ord) ==
    ImpactSets(nodes, incoming, outgoing, result.changed_classes, result.max_depth,
               EmptySets, SelectSeq(ord, LAMBDA x : x \in result.changed_classes))

\* C27: in an impact analysis the direct, indirect and transitive sets are
\* pairwise disjoint and disjoint from the changed set, and they are the same
\* for every order in which the changed classes are processed.
C27_TiersDisjoint ==
    result.op = "analyze_impact" =>
        /\ result.sets.direct \cap result.sets.indirect = {}
        /\ result.sets.direct \cap result.sets.transitive = {}
        /\ result.sets.indirect \cap result.sets.transitive = {}
        /\ (result.sets.direct \cup result.sets.indirect \cup result.sets.transitive)
              \cap result.changed_classes = {}
        /\ \A ord \in Orderings(NodeKeys(nodes)) : SetsInOrder(ord) = result.sets

\* every name a traversal can start from or arrive at
GraphNames == PoolNames \cup NodeKeys(nodes)

\* C29: upstream and downstream traversals are dual: the set returned by
\* get_all_upstream(X, d) holds a name Y other than X exactly when
\* get_all_downstream(Y, d) holds X, and the set returned by
\* get_all_downstream(Y, d) holds X exactly when get_all_upstream(X, d) holds Y.
C29_UpDownDual ==
    /\ result.op = "get_all_upstream" =>
          \A y \in GraphNames \ {result.class_name} :
              y \in result.value <=>
                  result.class_name \in get_all_downstream(outgoing, y, result.max_depth)
    /\ result.op = "get_all_downstream" =>
          \A x \in GraphNames \ {result.class_name} :
              x \in result.value <=>
                  result.class_name \in get_all_upstream(incoming, x, result.max_depth)

\* C29 witness: an upstream traversal returned one class within the depth
\* bound and left out another that only a deeper traversal reaches.
C29_Witness ==
    /\ result.op = "get_all_upstream"
    /\ result.value # {}
    /\ \E z \in GraphNames \ {result.class_name} :
          /\ z \notin result.value
          /\ z \in get_all_upstream(incoming, result.class_name, result.max_depth + 1)

\* how many times e occurs in the list q
Occurrences(q, e) == Cardinality({ i \in DOMAIN q : q[i] = e })

\* the edges an index holds, over all its keys
Indexed(index) == UNION { Range(index[k]) : k \in DOMAIN index }

\* _outgoing and _incoming hold each edge of the edge list under its source
\* and under its target as often as the list holds it, and no other edge
IndicesAgree ==
    /\ \A e \in Range(edges) :
          /\ Occurrences(Get(outgoing, e.source, <<>>), e) = Occurrences(edges, e)
          /\ Occurrences(Get(incoming, e.target, <<>>), e) = Occurrences(edges, e)
    /\ Indexed(outgoing) \subseteq Range(edges)
    /\ Indexed(incoming) \subseteq Range(edges)

\* a traversal call, one of its passes or its return, or a resolve_name call
QueryStep == BfsStart \/ BfsLoop \/ BfsReturn \/ ResolveName

\* C30: after any sequence of add_edge calls the forward and the reverse
\* index agree with the edge list in content and multiplicity, and the
\* traversal and resolution calls leave the edge list and both indices as
\* they were.
C30_IndicesAgreeWithEdges ==
    /\ []IndicesAgree
    /\ [][QueryStep => UNCHANGED <<edges, incoming, outgoing>>]_vars

\* C30 witness: a traversal or a resolution has returned on a graph in which
\* one class is the source of two edges, one class the target of two, and
\* one edge is in the edge list twice.
C30_Witness ==
    /\ pc = "done"
    /\ result.op \in {"get_all_upstream", "get_all_downstream", "resolve_name"}
    /\ \E e \in Range(edges) : Occurrences(edges, e) >= 2
    /\ \E k \in DOMAIN outgoing : Len(outgoing[k]) >= 2
    /\ \E k \in DOMAIN incoming : Len(incoming[k]) >= 2

-----------------------------------------------------------------------------
(* Properties of the state tracker and the pipeline runs *)

\* C5: a run in which writing the state file failed ends with an error, it
\* does not return as a success.
C5_SaveFailureAborts ==
    (run.pc = "exited" /\ run.save_failed) => run.outcome # "ok"

\* the file save_state is writing, once complete
NewStateFile == TextFile(to_dict(run.mem), SaveChunks, SaveChunks, "tool")

\* C6: at every point of a run, interrupted or not, the state file holds the
\* complete state it held when the run started or the complete new state
\* (or, in a refresh, is gone); never a partial or empty file.
C6_AtomicRewrite ==
    run.cmd \in {"scan", "update", "refresh"} =>
        \/ state_file = run.start_file
        \/ state_file = NewStateFile
        \/ run.cmd = "refresh" /\ state_file = Missing

\* the record save_state writes: every key present, files and kb_outputs
\* objects, every entry an object with the fields of a FileState
MatchesSchema(doc) ==
    /\ doc.t = "obj"
    /\ {"version", "last_full_scan", "last_update", "files", "kb_outputs"} \subseteq DOMAIN doc.v
    /\ doc.v["files"].t = "obj"
    /\ \A p \in DOMAIN doc.v["files"].v :
          /\ doc.v["files"].v[p].t = "obj"
          /\ DOMAIN doc.v["files"].v[p].v = FileStateKeys
    /\ doc.v["kb_outputs"].t = "obj"

Unusable(file) ==
    file.kind = "missing" \/ ~JsonLoads(file) \/ ~MatchesSchema(file.doc)

\* C7: an update run that found the state file missing, corrupt or not of
\* the expected schema holds no prior state and goes on as a full scan.
C7_BadStateMeansFullScan ==
    (run.cmd = "update" /\ run.pc # "load" /\ Unusable(run.start_file)) =>
        /\ run.state = <<>>
        /\ run.pc \in {"save_open", "save_write", "finish"} => run.full_scan
        /\ run.outcome \in {"ok", "error"} => run.full_scan

\* an update run has loaded a state and computed the changes against it
Computed ==
    /\ run.cmd = "update" /\ run.state # <<>>
    /\ \/ run.pc \in {"regen", "save_open", "save_write", "finish"}
       \/ run.pc = "exited" /\ run.outcome = "ok"

InSeq(x, q) == \E i \in DOMAIN q : q[i] = x

\* the files recorded by the last complete save whose content differs now
Altered(snap) == { p \in DOMAIN snap \cap DOMAIN disk : disk[p] # snap[p] }

\* C8: once update_file_states has recorded a file and the state has been
\* saved and loaded again, compute_changes puts the file in none of added,
\* modified, deleted while its content is the same, and in modified alone
\* once its content was altered; when one file was altered and no file came
\* or went, the change set is that file in modified and nothing else.
C8_RoundTrip ==
    (Computed /\ run.recorded # <<>> /\ state_file = run.start_file) =>
        LET snap == run.recorded[1] IN
        /\ \A p \in DOMAIN snap \cap DOMAIN disk :
              /\ ~InSeq(p, run.changes.added) /\ ~InSeq(p, run.changes.deleted)
              /\ InSeq(p, run.changes.modified) <=> p \in Altered(snap)
        /\ \A p \in Paths :
              (DOMAIN disk = DOMAIN snap /\ Altered(snap) = {p}) =>
                  run.changes = ChangeSet(<<>>, <<p>>, <<>>)

\* C8 witness: changes computed against a reloaded state, one recorded file
\* altered since the save and another one untouched.
C8_Witness ==
    /\ Computed /\ run.recorded # <<>> /\ state_file = run.start_file
    /\ DOMAIN disk = DOMAIN run.recorded[1]
    /\ \E p, q \in DOMAIN disk :
         /\ p # q /\ Altered(run.recorded[1]) = {p}
         /\ run.changes = ChangeSet(<<>>, <<p>>, <<>>)

\* C9: compute_changes puts a file in added iff it is present now and absent
\* from the prior state, in modified iff it is in both with a different
\* fingerprint, in deleted iff it is in the prior state and absent now; the
\* three lists are pairwise disjoint and a file in both with an equal
\* fingerprint is in none.
C9_Classification ==
    Computed =>
        LET prior == run.state[1].files
            InBoth(p) == p \in DOMAIN disk /\ p \in DOMAIN prior
            SameFingerprint(p) == compute_file_hash(disk[p]) = prior[p].sha256
        IN \A p \in Paths :
             /\ InSeq(p, run.changes.added) <=> (p \in DOMAIN disk /\ p \notin DOMAIN prior)
             /\ InSeq(p, run.changes.modified) <=> (InBoth(p) /\ ~SameFingerprint(p))
             /\ InSeq(p, run.changes.deleted) <=> (p \in DOMAIN prior /\ p \notin DOMAIN disk)
             /\ ~(InSeq(p, run.changes.added) /\ InSeq(p, run.changes.modified))
             /\ ~(InSeq(p, run.changes.added) /\ InSeq(p, run.changes.deleted))
             /\ ~(InSeq(p, run.changes.modified) /\ InSeq(p, run.changes.deleted))
             /\ (InBoth(p) /\ SameFingerprint(p)) =>
                    /\ ~InSeq(p, run.changes.added) /\ ~InSeq(p, run.changes.modified)
                    /\ ~InSeq(p, run.changes.deleted)

\* C9 witness: a change set with a deleted file next to an added or a
\* modified one.
C9_Witness ==
    /\ Computed
    /\ run.changes.deleted # <<>>
    /\ run.changes.added # <<>> \/ run.changes.modified # <<>>

Unchanged(dsk, state) ==
    /\ DOMAIN dsk = DOMAIN state.files
    /\ \A p \in DOMAIN dsk : compute_file_hash(dsk[p]) = state.files[p].sha256

UpdateCompleted ==
    /\ run.pc = "exited" /\ run.outcome = "ok"
    /\ run.cmd = "update" /\ run.state # <<>>
    /\ has_changes(run.changes)

\* C28: once an update run on a loadable prior state with detected changes
\* has completed, the state file loads, its per-file map has exactly the
\* discovered source files as keys with their current fingerprints, and
\* compute_changes against it finds nothing added, modified or deleted.
C28_UpdateLeavesNoChanges ==
    UpdateCompleted =>
        LET persisted == load_state(state_file) IN
        /\ persisted # <<>>
        /\ Unchanged(disk, persisted[1])
        /\ ~has_changes(compute_changes(disk, discover_cs_files(disk), persisted[1]))

====
